---- MODULE Spec2Model ----
(***************************************************************************)
(* The streaming graph-maintenance engine of the explorer client:          *)
(*   - Visualizer (the graph engine): itemsUpdated, milestonesUpdated,     *)
(*     drawUpdates, removeNodes, removeSmallNetworks, calculateSubGraph,   *)
(*     highlightMilestones;                                                *)
(*   - FeedClient (the feed reconciler): subscribe, unsubscribe and the    *)
(*     socket handlers that subscribe installs.                            *)
(*                                                                         *)
(* The tunables of the program are run scaled down, so that the cases the  *)
(* code distinguishes happen in small graphs: MAX_ITEMS is 5000 in the     *)
(* source, the consume divisor 50, the pruning interval 100, the small     *)
(* network ratio 0.03 and MIN_ITEMS_PER_TYPE 50 (or 10).  The two time     *)
(* windows keep their values in milliseconds.                              *)
(***************************************************************************)
EXTENDS Integers, Sequences, FiniteSets, TLC

(***************************************************************************)
(* Bounds of the model.                                                    *)
(***************************************************************************)
NumIds == 4          \* item ids are 1..NumIds; 0 is the empty parent ("")
MaxWindow == 3       \* most items the first delivery (the feed's window) carries
MaxPending == 2      \* longest _newItems list a later delivery is added to
MaxTicks == 1        \* the clock stops after MaxTicks ticks
TickMs == 200000     \* milliseconds per tick of the clock
NumMs == 2           \* milestone indexes are 1..NumMs
MsMaxPending == 1    \* MaxPending of the milestone specification
MsMaxTicks == 2      \* MaxTicks of the milestone specification
MaxIterations == 6   \* turns of the pruning loop that are followed
NumWire == 4         \* the wire items of the feed are 1..NumWire
MaxListeners == 2    \* listeners that call subscribe
MaxHandlers == 2     \* most "transactions" handlers the socket comes to hold
MaxMessage == 1      \* most items one "transactions" message carries
MaxBurst == 3        \* MaxMessage of the burst specification
MaxBatch == 2        \* MaxMessage of the decoding specification
NumNetworks == 2     \* networks the route visits
MaxConfirmed == 1    \* most ids one confirmedUpdated carries

(***************************************************************************)
(* Program constants.                                                      *)
(***************************************************************************)
MAX_ITEMS == 3                 \* Visualizer.MAX_ITEMS (5000)
CONSUME_DIVISOR == 2           \* Math.ceil(this._newItems.length / 50)
SMALL_NETWORK_INTERVAL == 2    \* this._smallNetworkInterval++ % 100
SMALL_NETWORK_PERCENT == 60    \* nodes.length < this._existingIds.length * 0.03
SMALL_NETWORK_AGE == 60000     \* now - mostRecentChange > 60000
MS_STALE == 300000             \* now - lastSeen > 300000
MIN_ITEMS_PER_TYPE == 2        \* FeedClient.MIN_ITEMS_PER_TYPE (50)
VERTEX_SIZE_REGULAR == 20      \* Visualizer.VERTEX_SIZE_REGULAR
VERTEX_SIZE_LARGE == 30        \* Visualizer.VERTEX_SIZE_LARGE
COLOR_PENDING == "0xbbbbbb"
COLOR_ZERO_CONFIRMED == "0x0fc1b7"
COLOR_VALUE_CONFIRMED == "0x3f985a"
COLOR_MILESTONE == "0xb8172d"
COLOR_SEARCH_RESULT == "0xe79c18"

Ids == 1..NumIds
MsIndices == 1..NumMs

VARIABLES
    protocolVersion,        \* this._networkConfig.protocolVersion
    ledger,                 \* the content of every item id: its parents
    nodes,                  \* the graph's nodes: id -> [feedItem, added]
    links,                  \* the graph's links, in creation order
    _existingIds,           \* Visualizer._existingIds
    _newItems,              \* Visualizer._newItems
    _removeNodes,           \* Visualizer._removeNodes
    _msIndexToNode,         \* Visualizer._msIndexToNode
    _smallNetworkInterval,  \* Visualizer._smallNetworkInterval, kept modulo the interval
    now,                    \* Date.now()
    ticks,                  \* number of clock ticks so far
    filter,                 \* Visualizer.state.filter, a sequence of characters
    network,                \* props.match.params.network, numbered from 1
    _isMounted,             \* AsyncComponent._isMounted
    _drawTimer,             \* Visualizer._drawTimer; 0 is undefined
    frame,                  \* an animation frame is requested for drawUpdates
    _itemSubscriptionId,    \* Feeds._itemSubscriptionId; 0 is undefined
    _miSubscriptionId,      \* Feeds._miSubscriptionId; 0 is undefined
    _timerId,               \* Feeds._timerId: the build whose interval it is; 0 is undefined
    intervals,              \* the builds whose setInterval timer is running
    callbacks,              \* the builds whose buildItems callback awaits updateTps
    pass,                   \* record of the update pass that has just run
    _items,                 \* FeedClient._items, newest first
    _feedIds,               \* FeedClient._existingIds
    _subscriptionId,        \* FeedClient._subscriptionId; 0 is undefined
    _subscribers,           \* FeedClient._subscribers: its keys, in insertion order
    handlers,               \* the "transactions" handlers socket.on has registered
    responses,              \* "subscribe" responses in flight, oldest first
    active                  \* the subscriptions the server is sending for

pollVars == <<_timerId, intervals, callbacks>>
lifeVars == <<network, _isMounted, _drawTimer, frame, _itemSubscriptionId,
              _miSubscriptionId, pollVars>>
engineVars == <<nodes, links, _existingIds, _newItems, _removeNodes,
                _msIndexToNode, _smallNetworkInterval, now, ticks, filter,
                lifeVars>>
feedVars == <<_items, _feedIds, _subscriptionId, _subscribers, handlers,
              responses, active>>
vars == <<protocolVersion, ledger, engineVars, pass, feedVars>>

(***************************************************************************)
(* Sequences.                                                              *)
(***************************************************************************)
InSeq(x, s) == \E i \in 1..Len(s) : s[i] = x
SeqSet(s) == {s[i] : i \in 1..Len(s)}
NoDup(s) == \A i, j \in 1..Len(s) : i # j => s[i] # s[j]
RemoveAt(s, i) == SubSeq(s, 1, i - 1) \o SubSeq(s, i + 1, Len(s))
IndexOf(s, x) ==
    IF InSeq(x, s)
    THEN CHOOSE i \in 1..Len(s) : s[i] = x /\ \A j \in 1..(i - 1) : s[j] # x
    ELSE 0
Min(S) == CHOOSE x \in S : \A y \in S : x <= y
Restrict(f, S) == [x \in S |-> f[x]]

(***************************************************************************)
(* Feed items as the Visualizer reads them: id, parent1, parent2,          *)
(* metaData.MS, value, confirmed.  An absent parent ("") is 0 and an       *)
(* absent metaData.MS is 0; both are falsy in the source.  A milestone     *)
(* message carries no value.  An id is derived from                        *)
(* the item's content, so the content is a function of the id: the ledger. *)
(* Ids number the ledger in a topological order (a parent has a smaller    *)
(* id than its child); the order of arrival is free, and an item may       *)
(* arrive again.  The ledger is chosen when the engine starts.             *)
(***************************************************************************)
Undefined == 0 - 1     \* the value of an item that has none

FeedItem(id, p1, p2, ms, value) ==
    [id |-> id, parent1 |-> p1, parent2 |-> p2,
     metaData |-> [MS |-> ms], value |-> value, confirmed |-> FALSE]

\* the ledgers of the model: item 1 is a root, items 2 and 3 name item 1
\* alone (trunk = branch), a later item is a root, names the item before it
\* alone, or names the two items before it
ParentPairs(id) ==
    IF id = 1 THEN {<<0, 0>>}
    ELSE IF id <= 3 THEN {<<1, 1>>}
    ELSE {<<0, 0>>, <<id - 1, id - 1>>, <<id - 2, id - 1>>}

Ledgers ==
    { L \in [Ids -> (0..NumIds) \X (0..NumIds)] :
        \A id \in Ids : L[id] \in ParentPairs(id) }

\* the milestone index a chrysalis message carries in metaData.MS
\* (items 2, 3, ... are the milestones 1, 2, ...)
MilestoneOf(pv, id) ==
    IF pv = "chrysalis" /\ (id - 1) \in MsIndices THEN id - 1 ELSE 0

\* the first two items move no value, the later ones do
ValueOf(pv, id) ==
    IF MilestoneOf(pv, id) # 0 THEN Undefined
    ELSE IF id <= 2 THEN 0 ELSE id

ItemOf(pv, L, id) ==
    FeedItem(id, L[id][1], L[id][2], MilestoneOf(pv, id), ValueOf(pv, id))

\* feedItem.metaData?.MS
MSOf(feedItem) ==
    IF "metaData" \in DOMAIN feedItem THEN feedItem.metaData.MS ELSE 0

\* feedItem.metaData = feedItem.metaData ?? {}; feedItem.metaData.MS = msIndex
SetMS(feedItem, msIndex) ==
    IF "metaData" \in DOMAIN feedItem
    THEN [feedItem EXCEPT !.metaData.MS = msIndex]
    ELSE feedItem @@ [metaData |-> [MS |-> msIndex]]

(***************************************************************************)
(* The graph (Viva.Graph.graph()): nodes keyed by id, each link held once  *)
(* in creation order; a node's links array is the links that touch it, in  *)
(* that same order.                                                        *)
(***************************************************************************)
EmptyGraph == [nodes |-> << >>, links |-> << >>]
Graph == [nodes |-> nodes, links |-> links]

getNode(G, id) == id \in DOMAIN G.nodes

addNode(G, id, data) == [G EXCEPT !.nodes = (id :> data) @@ G.nodes]

addLink(G, fromId, toId) ==
    [G EXCEPT !.links = Append(@, [fromId |-> fromId, toId |-> toId])]

Touches(link, id) == link.fromId = id \/ link.toId = id

nodeLinks(G, id) == SelectSeq(G.links, LAMBDA l : Touches(l, id))

removeLink(G, link) ==
    LET i == IndexOf(G.links, link)
    IN  IF i = 0 THEN G ELSE [G EXCEPT !.links = RemoveAt(@, i)]

\* removeNode that forgets the node's links
removeNodeKeepingLinks(G, id) ==
    [G EXCEPT !.nodes = Restrict(G.nodes, DOMAIN G.nodes \ {id})]

removeNode(G, id) ==
    IF ~getNode(G, id) THEN G
    ELSE [nodes |-> Restrict(G.nodes, DOMAIN G.nodes \ {id}),
          links |-> SelectSeq(G.links, LAMBDA l : ~Touches(l, id))]

(***************************************************************************)
(* drawUpdates, the insertion loop (lines 1583-1627).  A pass state is the *)
(* graph being built and the pass's added list.                            *)
(***************************************************************************)
Placeholder(id) == [id |-> id, confirmed |-> FALSE]

NodeData(feedItem, t) == [feedItem |-> feedItem, added |-> t]

\* lines 1597-1609 (and 1613-1624): the parent's placeholder, then the link
AddParent(st, parent, child, t) ==
    LET st1 == IF ~getNode(st.G, parent)
               THEN [G |-> addNode(st.G, parent, NodeData(Placeholder(parent), t)),
                     added |-> Append(st.added, parent)]
               ELSE st
    IN  [st1 EXCEPT !.G = addLink(@, parent, child)]

\* the loop body without the existingNode test of line 1589
ApplyItemUnchecked(st, item, t) ==
    LET s0 == [G |-> addNode(st.G, item.id, NodeData(item, t)),
               added |-> Append(st.added, item.id)]
        s1 == IF item.parent1 # 0
              THEN AddParent(s0, item.parent1, item.id, t) ELSE s0
    IN  IF item.parent2 # 0 /\ item.parent1 # item.parent2
        THEN AddParent(s1, item.parent2, item.id, t) ELSE s1

\* the loop body without the parent1 !== parent2 test of line 1612
ApplyItemBothParents(st, item, t) ==
    IF getNode(st.G, item.id) THEN st
    ELSE LET s0 == [G |-> addNode(st.G, item.id, NodeData(item, t)),
                    added |-> Append(st.added, item.id)]
             s1 == IF item.parent1 # 0
                   THEN AddParent(s0, item.parent1, item.id, t) ELSE s0
         IN  IF item.parent2 # 0
             THEN AddParent(s1, item.parent2, item.id, t) ELSE s1

\* the body of `for (const item of items)`
ApplyItem(st, item, t) ==
    IF getNode(st.G, item.id) THEN st
    ELSE LET s0 == [G |-> addNode(st.G, item.id, NodeData(item, t)),
                    added |-> Append(st.added, item.id)]
             s1 == IF item.parent1 # 0
                   THEN AddParent(s0, item.parent1, item.id, t) ELSE s0
             s2 == IF item.parent2 # 0 /\ item.parent1 # item.parent2
                   THEN AddParent(s1, item.parent2, item.id, t) ELSE s1
         IN  s2

RECURSIVE ApplyItems(_, _, _)
ApplyItems(st, items, t) ==
    IF Len(items) = 0 THEN st
    ELSE ApplyItems(ApplyItem(st, Head(items), t), Tail(items), t)

\* Math.floor in place of Math.ceil
consumeFloor(n) == n \div CONSUME_DIVISOR

\* Math.ceil(this._newItems.length / 50)
consumeLength(n) == (n + CONSUME_DIVISOR - 1) \div CONSUME_DIVISOR

(***************************************************************************)
(* drawUpdates, the eviction sweep (lines 1629-1638): shift ids off the    *)
(* front of _existingIds while it is longer than MAX_ITEMS; an id that is  *)
(* not in this pass's added list goes to the removal queue.                *)
(***************************************************************************)
RECURSIVE Sweep(_, _, _)
Sweep(ids, added, queue) ==
    IF Len(ids) > MAX_ITEMS
    THEN LET nodeToRemove == Head(ids)
         IN  Sweep(Tail(ids), added,
                   IF ~InSeq(nodeToRemove, added)
                   THEN Append(queue, nodeToRemove) ELSE queue)
    ELSE [ids |-> ids, queue |-> queue]

(***************************************************************************)
(* removeNodes (lines 1912-1944).  A removal state is the graph and the    *)
(* milestone index.  forEachLinkedNode runs over the node's links array    *)
(* by position while the callback removes links from that same array       *)
(* (linkedNode.links.length, line 1921, is the array the library splices): *)
(* after the link at position i is removed the next link slides into       *)
(* position i and the loop goes on at i + 1.                               *)
(***************************************************************************)
DeleteKey(f, k) == Restrict(f, DOMAIN f \ {k})

OtherEnd(link, id) == IF link.fromId = id THEN link.toId ELSE link.fromId

\* the callback of forEachLinkedNode (lines 1918-1927)
LinkedNodeCallback(st, nodeToRemove, link) ==
    LET linkedId == OtherEnd(link, nodeToRemove)
        linkedNode == st.G.nodes[linkedId]
        G1 == removeLink(st.G, link)
        orphan == Len(nodeLinks(G1, linkedId)) = 0
        ms == MSOf(linkedNode.feedItem)
    IN  IF orphan
        THEN [G |-> removeNode(G1, linkedId),
              ms |-> IF ms # 0 THEN DeleteKey(st.ms, ms) ELSE st.ms]
        ELSE [G |-> G1, ms |-> st.ms]

RECURSIVE forEachLinkedNode(_, _, _)
forEachLinkedNode(st, nodeToRemove, i) ==
    LET ls == nodeLinks(st.G, nodeToRemove)
    IN  IF i > Len(ls) THEN st
        ELSE forEachLinkedNode(LinkedNodeCallback(st, nodeToRemove, ls[i]),
                               nodeToRemove, i + 1)

\* one turn of the while loop (lines 1915-1941)
RemoveOne(st, nodeToRemove) ==
    LET s1 == IF getNode(st.G, nodeToRemove)
              THEN forEachLinkedNode(st, nodeToRemove, 1) ELSE st
        G2 == removeNode(s1.G, nodeToRemove)
        \* lines 1932-1936: the node is looked up after its removal
        ms == IF getNode(G2, nodeToRemove)
              THEN MSOf(G2.nodes[nodeToRemove].feedItem) ELSE 0
    IN  [G |-> G2, ms |-> IF ms # 0 THEN DeleteKey(s1.ms, ms) ELSE s1.ms]

\* a drain that empties the queue and removes nothing
keepNodes(st, queue) == [G |-> st.G, ms |-> st.ms, queue |-> << >>]

\* a drain that takes one id from the queue: an if for the while of line 1914
removeNodesOnce(st, queue) ==
    IF Len(queue) = 0 THEN [G |-> st.G, ms |-> st.ms, queue |-> queue]
    ELSE LET r == RemoveOne(st, Head(queue))
         IN  [G |-> r.G, ms |-> r.ms, queue |-> Tail(queue)]

\* the while loop of lines 1914-1942 on the queue this._removeNodes: the
\* removal state it ends with, and the queue it leaves
RECURSIVE removeNodes(_, _)
removeNodes(st, queue) ==
    IF Len(queue) = 0 THEN [G |-> st.G, ms |-> st.ms, queue |-> queue]
    ELSE removeNodes(RemoveOne(st, Head(queue)), Tail(queue))

(***************************************************************************)
(* calculateSubGraph (lines 1998-2039): breadth-first walk from            *)
(* startNodeId over the links in both directions.  marks is data.graphId   *)
(* of every node, 0 for undefined.                                         *)
(***************************************************************************)
\* the push loop following a link only from its child to its parent
RECURSIVE PushLinkedOriented(_, _, _, _)
PushLinkedOriented(marks, nodeId, ls, nodesToVisit) ==
    IF Len(ls) = 0 THEN nodesToVisit
    ELSE PushLinkedOriented(marks, nodeId, Tail(ls),
                            IF /\ Head(ls).toId = nodeId
                               /\ marks[Head(ls).fromId] = 0
                               /\ ~InSeq(Head(ls).fromId, nodesToVisit)
                            THEN Append(nodesToVisit, Head(ls).fromId)
                            ELSE nodesToVisit)

\* lines 2020-2024: push the linked nodes that have no graphId and are not queued
RECURSIVE PushLinked(_, _, _, _)
PushLinked(marks, nodeId, ls, nodesToVisit) ==
    IF Len(ls) = 0 THEN nodesToVisit
    ELSE LET linkedId == OtherEnd(Head(ls), nodeId)
         IN  PushLinked(marks, nodeId, Tail(ls),
                        IF marks[linkedId] = 0 /\ ~InSeq(linkedId, nodesToVisit)
                        THEN Append(nodesToVisit, linkedId) ELSE nodesToVisit)

RECURSIVE VisitLoop(_, _, _, _, _, _)
VisitLoop(G, graphId, marks, nodesToVisit, nodesVisited, mostRecentChange) ==
    IF Len(nodesToVisit) = 0
    THEN [nodes |-> nodesVisited, mostRecentChange |-> mostRecentChange,
          marks |-> marks]
    ELSE LET nodeId == Head(nodesToVisit)
             rest == Tail(nodesToVisit)
             visited == Append(nodesVisited, nodeId)
         IN  IF getNode(G, nodeId) /\ marks[nodeId] = 0
             THEN VisitLoop(G, graphId, [marks EXCEPT ![nodeId] = graphId],
                            PushLinked([marks EXCEPT ![nodeId] = graphId], nodeId,
                                       nodeLinks(G, nodeId), rest),
                            visited,
                            IF G.nodes[nodeId].added > mostRecentChange
                            THEN G.nodes[nodeId].added ELSE mostRecentChange)
             ELSE VisitLoop(G, graphId, marks, rest, visited, mostRecentChange)

\* the walk reporting the arrival time of the start node for the sub graph
calculateSubGraphStartTime(G, startNodeId, graphId, marks) ==
    [VisitLoop(G, graphId, marks, <<startNodeId>>, << >>, 0)
         EXCEPT !.mostRecentChange = G.nodes[startNodeId].added]

calculateSubGraph(G, startNodeId, graphId, marks) ==
    VisitLoop(G, graphId, marks, <<startNodeId>>, << >>, 0)

(***************************************************************************)
(* removeSmallNetworks (lines 1949-1990).  forEachNode runs over the nodes *)
(* in the library's iteration order; the order only decides the numbering  *)
(* of the sub graphs, and the model runs over the ids in ascending order.  *)
(***************************************************************************)
RECURSIVE SortedSeq(_)
SortedSeq(S) ==
    IF S = {} THEN << >> ELSE <<Min(S)>> \o SortedSeq(S \ {Min(S)})

\* lines 1967-1973: number the sub graphs; the sub graphs found and the
\* graphId every node ends with
RECURSIVE DiscoverLoop(_, _, _, _)
DiscoverLoop(G, order, marks, subGraphs) ==
    IF Len(order) = 0 THEN [subGraphs |-> subGraphs, marks |-> marks]
    ELSE IF marks[Head(order)] = 0
         THEN LET sub == calculateSubGraph(G, Head(order), Len(subGraphs) + 1, marks)
              IN  DiscoverLoop(G, Tail(order), sub.marks,
                               Append(subGraphs,
                                      [nodes |-> sub.nodes,
                                       mostRecentChange |-> sub.mostRecentChange]))
         ELSE DiscoverLoop(G, Tail(order), marks, subGraphs)

\* lines 1963-1965: node.data.graphId = undefined for every node
ClearGraphIds(G) == [n \in DOMAIN G.nodes |-> 0]

\* lines 1963-1973: clear every graphId, then number the sub graphs
Discover(G) == DiscoverLoop(G, SortedSeq(DOMAIN G.nodes), ClearGraphIds(G), << >>)

SubGraphs(G) == Discover(G).subGraphs

\* lines 1978-1979
IsSmallAndOld(subGraph, existingCount, t) ==
    /\ Len(subGraph.nodes) * 100 < existingCount * SMALL_NETWORK_PERCENT
    /\ t - subGraph.mostRecentChange > SMALL_NETWORK_AGE

\* lines 1975-1983: the nodes of every small and old sub graph, in sub graph order
RECURSIVE NodesToPrune(_, _, _)
NodesToPrune(subGraphs, existingCount, t) ==
    IF Len(subGraphs) = 0 THEN << >>
    ELSE (IF IsSmallAndOld(Head(subGraphs), existingCount, t)
          THEN Head(subGraphs).nodes ELSE << >>)
         \o NodesToPrune(Tail(subGraphs), existingCount, t)

\* one turn of the do-while loop of lines 1953-1988, as a record: the graph
\* the turn starts from, this._removeNodes as it finds it (pending), the sub
\* graphs and graphIds of its discovery, the nodes it queues, the removal
\* state after its removeNodes and the queue it leaves
TurnRecord(st, pending, discovered, queued, removed, next) ==
    [graph |-> st.G, pending |-> pending, subGraphs |-> discovered.subGraphs,
     graphIds |-> discovered.marks, queued |-> queued, removed |-> removed,
     after |-> next.G, ms |-> next.ms, left |-> next.queue]

\* lines 1985-1987: if (removed) this.removeNodes()
RemoveQueued(st, queue, removed) ==
    IF removed THEN removeNodes(st, queue)
    ELSE [G |-> st.G, ms |-> st.ms, queue |-> queue]

\* lines 1975-1987 on the sub graphs found
TurnOn(st, pending, discovered, queued, removed) ==
    TurnRecord(st, pending, discovered, queued, removed,
               RemoveQueued(st, pending \o queued, removed))

\* lines 1954-1987
Turn(st, pending, discovered, existingCount, t) ==
    TurnOn(st, pending, discovered,
           NodesToPrune(discovered.subGraphs, existingCount, t),
           \E i \in 1..Len(discovered.subGraphs) :
               IsSmallAndOld(discovered.subGraphs[i], existingCount, t))

\* the turns of the do-while loop of lines 1953-1988, in order.  The loop is
\* followed for MaxIterations turns.
RECURSIVE PruneIterations(_, _, _, _, _)
RECURSIVE PruneFrom(_, _, _, _)
PruneFrom(turn, existingCount, t, turns) ==
    <<turn>> \o (IF turn.removed /\ turns > 1
                 THEN PruneIterations([G |-> turn.after, ms |-> turn.ms],
                                      turn.left, existingCount, t, turns - 1)
                 ELSE << >>)

PruneIterations(st, pending, existingCount, t, turns) ==
    PruneFrom(Turn(st, pending, Discover(st.G), existingCount, t),
              existingCount, t, turns)

Last(s) == s[Len(s)]

\* the removal state and the queue the last turn ends with, and the turns
PruneResult(iterations) ==
    [G |-> Last(iterations).after, ms |-> Last(iterations).ms,
     queue |-> Last(iterations).left, iterations |-> iterations]

\* no pruning: the removal state and the queue as they are
NotPruned(st, pending) ==
    [G |-> st.G, ms |-> st.ms, queue |-> pending, iterations |-> << >>]

\* the removal state and the queue the loop ends with
removeSmallNetworks(st, pending, existingCount, t) ==
    PruneResult(PruneIterations(st, pending, existingCount, t, MaxIterations))

(***************************************************************************)
(* highlightMilestones (lines 1882-1907).  The keys of _msIndexToNode are  *)
(* walked in ascending order (integer keys of an object).                  *)
(***************************************************************************)
\* one key, without the staleness test of line 1898
HighlightKeyEager(st, msIndex, t) ==
    LET entry == st.ms[msIndex]
    IN  IF getNode(st.G, entry.id)
        THEN [G |-> [st.G EXCEPT !.nodes[entry.id].feedItem = SetMS(@, msIndex)],
              ms |-> [st.ms EXCEPT ![msIndex].lastSeen = t],
              toRemove |-> st.toRemove]
        ELSE [st EXCEPT !.toRemove = @ \cup {msIndex}]

\* lines 1891-1900, one key
HighlightKey(st, msIndex, t) ==
    LET entry == st.ms[msIndex]
    IN  IF getNode(st.G, entry.id)
        THEN [G |-> [st.G EXCEPT !.nodes[entry.id].feedItem = SetMS(@, msIndex)],
              ms |-> [st.ms EXCEPT ![msIndex].lastSeen = t],
              toRemove |-> st.toRemove]
        ELSE IF t - entry.lastSeen > MS_STALE
             THEN [st EXCEPT !.toRemove = @ \cup {msIndex}]
             ELSE st

RECURSIVE HighlightLoop(_, _, _)
HighlightLoop(st, keys, t) ==
    IF Len(keys) = 0 THEN st
    ELSE HighlightLoop(HighlightKey(st, Head(keys), t), Tail(keys), t)

highlightMilestones(st, t) ==
    LET r == HighlightLoop([G |-> st.G, ms |-> st.ms, toRemove |-> {}],
                           SortedSeq(DOMAIN st.ms), t)
    IN  [G |-> r.G, ms |-> Restrict(r.ms, DOMAIN r.ms \ r.toRemove)]

(***************************************************************************)
(* itemsUpdated (lines 1442-1463) and milestonesUpdated (lines 1487-1508). *)
(***************************************************************************)
\* the entry is written only when the index has none
InsertMilestone(ms, msIndex, id, t) ==
    ms @@ (msIndex :> [id |-> id, lastSeen |-> t])

\* lines 1451-1454 and 1500-1503
UpsertMilestone(ms, msIndex, id, t) ==
    (msIndex :> [id |-> id, lastSeen |-> t]) @@ ms

\* lines 1449-1457: every pending message that carries metaData.MS
RECURSIVE UpsertFromMessages(_, _, _)
UpsertFromMessages(ms, messages, t) ==
    IF Len(messages) = 0 THEN ms
    ELSE UpsertFromMessages(
             IF MSOf(Head(messages)) # 0
             THEN UpsertMilestone(ms, MSOf(Head(messages)), Head(messages).id, t)
             ELSE ms,
             Tail(messages), t)

\* lines 1499-1504
RECURSIVE UpsertFromMilestones(_, _, _)
UpsertFromMilestones(ms, milestones, t) ==
    IF Len(milestones) = 0 THEN ms
    ELSE UpsertFromMilestones(
             UpsertMilestone(ms, Head(milestones).milestoneIndex,
                             Head(milestones).id, t),
             Tail(milestones), t)

NoPass == [op |-> "none"]

\* the record of a tracking pass: the index highlightMilestones started from
TrackingPass(ms, t) == [op |-> "track", msBefore |-> ms, at |-> t]

\* Date.now() moves on between two callbacks
Tick(maxTicks) ==
    /\ ticks < maxTicks
    /\ ticks' = ticks + 1
    /\ now' = now + TickMs
    /\ pass' = NoPass
    /\ UNCHANGED <<protocolVersion, ledger, nodes, links, _existingIds, _newItems,
                   _removeNodes, _msIndexToNode, _smallNetworkInterval>>
    /\ UNCHANGED <<filter, lifeVars, feedVars>>

\* itemsUpdated (lines 1442-1463) on the network configuration pv: the
\* pending items, the graph and the milestone index afterwards
itemsUpdated(pv, newItems) ==
    LET pending == _newItems \o newItems
        changed == pv = "chrysalis"
                   /\ \E i \in 1..Len(pending) : MSOf(pending[i]) # 0
        ms == IF pv = "chrysalis"
              THEN UpsertFromMessages(_msIndexToNode, pending, now)
              ELSE _msIndexToNode
        r == IF changed
             THEN highlightMilestones([G |-> Graph, ms |-> ms], now)
             ELSE [G |-> Graph, ms |-> ms]
    IN  [pending |-> pending, G |-> r.G, ms |-> r.ms,
         pass |-> IF changed THEN TrackingPass(ms, now) ELSE NoPass]

\* the listener of Feeds.buildItems (lines 139-143) and updateItems
ItemsUpdated(newItems) ==
    /\ _isMounted
    /\ _itemSubscriptionId # 0
    /\ LET r == itemsUpdated(protocolVersion, newItems)
       IN  /\ _newItems' = r.pending
           /\ nodes' = r.G.nodes
           /\ links' = r.G.links
           /\ _msIndexToNode' = r.ms
           /\ pass' = r.pass
    /\ UNCHANGED <<protocolVersion, ledger, _existingIds, _removeNodes,
                   _smallNetworkInterval, now, ticks>>
    /\ UNCHANGED <<filter, lifeVars, feedVars>>

\* the listener of Feeds.buildMilestones (lines 220-224), updateMilestones
\* and milestonesUpdated (lines 1487-1508)
MilestonesUpdated(milestones) ==
    /\ _isMounted
    /\ _miSubscriptionId # 0
    /\ protocolVersion = "og"
    /\ LET ms == UpsertFromMilestones(_msIndexToNode, milestones, now)
           r == highlightMilestones([G |-> Graph, ms |-> ms], now)
       IN  /\ nodes' = r.G.nodes
           /\ links' = r.G.links
           /\ _msIndexToNode' = r.ms
           /\ pass' = TrackingPass(ms, now)
    /\ UNCHANGED <<protocolVersion, ledger, _existingIds, _newItems, _removeNodes,
                   _smallNetworkInterval, now, ticks>>
    /\ UNCHANGED <<filter, lifeVars, feedVars>>

\* the test of line 1642 on the counter after its increment
IsPruningPassAfter(interval) == (interval + 1) % SMALL_NETWORK_INTERVAL = 0

\* line 1642: this._smallNetworkInterval++ % 100 === 0
IsPruningPass(interval) == interval % SMALL_NETWORK_INTERVAL = 0

\* drawUpdates (lines 1577-1652) with items pending
DrawUpdates ==
    /\ frame
    /\ Len(_newItems) > 0
    /\ LET n == consumeLength(Len(_newItems))
           items == SubSeq(_newItems, 1, n)
           ins == ApplyItems([G |-> Graph, added |-> << >>], items, now)
           sw == Sweep(_existingIds \o ins.added, ins.added, _removeNodes)
           dr == removeNodes([G |-> ins.G, ms |-> _msIndexToNode], sw.queue)
           prune == IsPruningPass(_smallNetworkInterval)
           fin == IF prune
                  THEN removeSmallNetworks(dr, dr.queue, Len(sw.ids), now)
                  ELSE NotPruned(dr, dr.queue)
       IN  /\ _newItems' = SubSeq(_newItems, n + 1, Len(_newItems))
           /\ nodes' = fin.G.nodes
           /\ links' = fin.G.links
           /\ _existingIds' = sw.ids
           /\ _removeNodes' = fin.queue
           /\ _msIndexToNode' = fin.ms
           /\ _smallNetworkInterval' =
                  (_smallNetworkInterval + 1) % SMALL_NETWORK_INTERVAL
           /\ pass' = [op |-> "draw", items |-> items, added |-> ins.added,
                       before |-> Graph, inserted |-> ins.G, queued |-> sw.queue,
                       drained |-> dr.G, pruned |-> prune, at |-> now,
                       index |-> _msIndexToNode, indexDrained |-> dr.ms,
                       existing |-> _existingIds, pending |-> _removeNodes,
                       left |-> dr.queue,
                       iterations |-> fin.iterations]
    \* lines 1649-1651: the next frame is requested while the timer is set
    /\ frame' = (_drawTimer # 0)
    /\ UNCHANGED <<protocolVersion, ledger, now, ticks, filter, network,
                   _isMounted, _drawTimer, _itemSubscriptionId,
                   _miSubscriptionId, pollVars>>
    /\ UNCHANGED feedVars

(***************************************************************************)
(* The search box.  Text is a sequence of characters.  The id of an item   *)
(* is a string of trytes on an og network and of hex digits on a chrysalis *)
(* network; a metadata value is tested as its decimal text.                *)
(***************************************************************************)
Trytes == <<"A", "B", "C">>
HexDigits == <<"a", "b", "c">>
Digits == <<"1", "2", "3", "4", "5", "6", "7", "8", "9">>

IdText(pv, id) ==
    LET alphabet == IF pv = "og" THEN Trytes ELSE HexDigits
    IN  <<alphabet[(((id - 1) \div 3) % 3) + 1], alphabet[((id - 1) % 3) + 1]>>

\* String(n) of a metadata number
NumberText(n) == <<Digits[n]>>

\* e.target.value.toUpperCase() (line 1213)
UpperCase(c) ==
    IF \E i \in 1..Len(HexDigits) : HexDigits[i] = c
    THEN Trytes[CHOOSE i \in 1..Len(HexDigits) : HexDigits[i] = c]
    ELSE c

toUpperCase(text) == [i \in 1..Len(text) |-> UpperCase(text[i])]

\* String.prototype.trim
RECURSIVE trim(_)
trim(text) ==
    IF Len(text) = 0 THEN text
    ELSE IF Head(text) = " " THEN trim(Tail(text))
    ELSE IF text[Len(text)] = " " THEN trim(SubSeq(text, 1, Len(text) - 1))
    ELSE text

\* RegExp.prototype.test for a pattern of literal characters and ".": the
\* pattern matches somewhere in the text
RegExpTest(regEx, text) ==
    \E k \in 0..(Len(text) - Len(regEx)) :
        \A i \in 1..Len(regEx) : regEx[i] = "." \/ regEx[i] = text[k + i]

\* the undefined highlightNodesRegEx returns for a blank filter
NoRegEx == << >>

\* highlightNodesRegEx (lines 1813-1819)
highlightNodesRegEx(stateFilter) ==
    LET trimmedFilter == trim(stateFilter)
    IN  IF Len(trimmedFilter) > 0 THEN trimmedFilter ELSE NoRegEx

\* for (const key in data.feedItem.metaData): the values tested
MetadataTexts(feedItem) ==
    IF MSOf(feedItem) # 0 THEN {NumberText(MSOf(feedItem))} ELSE {}

\* testForHighlight that tests whatever regEx it is given
testForHighlightUnguarded(regEx, nodeId, data) ==
    \/ RegExpTest(regEx, nodeId)
    \/ \E text \in MetadataTexts(data.feedItem) : RegExpTest(regEx, text)

\* testForHighlight (lines 1828-1849)
testForHighlight(regEx, nodeId, data) ==
    IF regEx = NoRegEx \/ Len(nodeId) = 0 THEN FALSE
    ELSE IF RegExpTest(regEx, nodeId) THEN TRUE
    ELSE \E text \in MetadataTexts(data.feedItem) : RegExpTest(regEx, text)

\* feedItem.value, undefined on a placeholder
ItemValue(feedItem) ==
    IF "value" \in DOMAIN feedItem THEN feedItem.value ELSE Undefined

\* calculateNodeStyle with the milestone color ahead of the search result
calculateNodeStyleMilestoneFirst(data, highlight) ==
    LET feedItem == data.feedItem
        valued == ItemValue(feedItem) # 0 /\ ItemValue(feedItem) # Undefined
    IN  [color |-> IF MSOf(feedItem) # 0 THEN COLOR_MILESTONE
                   ELSE IF highlight THEN COLOR_SEARCH_RESULT
                   ELSE IF feedItem.confirmed
                        THEN IF valued THEN COLOR_VALUE_CONFIRMED
                             ELSE COLOR_ZERO_CONFIRMED
                   ELSE COLOR_PENDING,
         size |-> IF MSOf(feedItem) # 0 \/ valued
                  THEN VERTEX_SIZE_LARGE ELSE VERTEX_SIZE_REGULAR]

\* calculateNodeStyle (lines 1676-1706) of a node that exists
calculateNodeStyle(data, highlight) ==
    LET feedItem == data.feedItem
        valued == ItemValue(feedItem) # 0 /\ ItemValue(feedItem) # Undefined
    IN  [color |-> IF highlight THEN COLOR_SEARCH_RESULT
                   ELSE IF MSOf(feedItem) # 0 THEN COLOR_MILESTONE
                   ELSE IF feedItem.confirmed
                        THEN IF valued THEN COLOR_VALUE_CONFIRMED
                             ELSE COLOR_ZERO_CONFIRMED
                   ELSE COLOR_PENDING,
         size |-> IF MSOf(feedItem) # 0 \/ valued
                  THEN VERTEX_SIZE_LARGE ELSE VERTEX_SIZE_REGULAR]

\* styleNode (lines 1659-1668) on each node of `ids', with the highlight
\* test its callers hand it: the color and size the node's UI is given
styleNodes(pv, G, stateFilter, ids) ==
    LET regEx == highlightNodesRegEx(stateFilter)
    IN  [id \in ids |->
            calculateNodeStyle(G.nodes[id],
                testForHighlight(regEx, IdText(pv, id), G.nodes[id]))]

\* confirmedUpdated that puts a placeholder in for an id that has no node
markConfirmedAll(G, confirmed) ==
    [id \in DOMAIN G.nodes \cup SeqSet(confirmed) |->
        IF InSeq(id, confirmed)
        THEN IF getNode(G, id)
             THEN [G.nodes[id] EXCEPT !.feedItem.confirmed = TRUE]
             ELSE NodeData([id |-> id, confirmed |-> TRUE], 0)
        ELSE G.nodes[id]]

\* the loop of confirmedUpdated (lines 1473-1479): the nodes afterwards
markConfirmed(G, confirmed) ==
    [id \in DOMAIN G.nodes |->
        IF InSeq(id, confirmed)
        THEN [G.nodes[id] EXCEPT !.feedItem.confirmed = TRUE]
        ELSE G.nodes[id]]

\* confirmedUpdated (lines 1469-1481)
ConfirmedUpdated(confirmed) ==
    /\ nodes' = markConfirmed(Graph, confirmed)
    /\ pass' = [op |-> "confirm", confirmed |-> confirmed, before |-> Graph,
                styles |-> styleNodes(protocolVersion,
                                      [nodes |-> nodes', links |-> links], filter,
                                      SeqSet(confirmed) \cap DOMAIN nodes)]
    /\ UNCHANGED <<protocolVersion, ledger, links, _existingIds, _newItems,
                   _removeNodes, _msIndexToNode, _smallNetworkInterval, now,
                   ticks, filter>>
    /\ UNCHANGED <<lifeVars, feedVars>>

\* the onChange of the search box (lines 1210-1216): setState, then
\* restyleNodes (lines 1799-1807)
FilterChanged(value) ==
    /\ filter' = IF protocolVersion = "og" THEN toUpperCase(value) ELSE value
    /\ pass' = [op |-> "restyle",
                styles |-> styleNodes(protocolVersion, Graph, filter', DOMAIN nodes)]
    /\ UNCHANGED <<protocolVersion, ledger, nodes, links, _existingIds, _newItems,
                   _removeNodes, _msIndexToNode, _smallNetworkInterval, now,
                   ticks>>
    /\ UNCHANGED <<lifeVars, feedVars>>

\* what the user types in the search box
Filters == {<< >>, <<" ">>, <<" ", "b", ".">>, <<"1">>}

(***************************************************************************)
(* The feed.  The first delivery is the feed client's window (Feeds        *)
(* .buildItems hands getItems() to itemsUpdated); later deliveries carry   *)
(* one item and wait while MaxPending items are pending.                   *)
(***************************************************************************)
\* the sequences over S of length at most n; the window may hold an item twice
RECURSIVE SeqsUpTo(_, _)
SeqsUpTo(S, n) ==
    IF n = 0 THEN {<< >>}
    ELSE {<< >>} \cup
         UNION { { <<x>> \o q : q \in SeqsUpTo(S, n - 1) } : x \in S }

\* the ids of two networks are hashes of different content: the item id
\* of network n is the id (n - 1) * NumIds + id in the graph
NetworkId(n, id) == IF id = 0 THEN 0 ELSE (n - 1) * NumIds + id

NetworkItem(n, item) ==
    [item EXCEPT !.id = NetworkId(n, @), !.parent1 = NetworkId(n, @),
                 !.parent2 = NetworkId(n, @)]

ItemSeq(pv, L, ids) == [i \in 1..Len(ids) |-> ItemOf(pv, L, ids[i])]

NetworkItems(n, pv, L, ids) ==
    [i \in 1..Len(ids) |-> NetworkItem(n, ItemOf(pv, L, ids[i]))]

FirstDelivery ==
    /\ Len(_existingIds) = 0 /\ Len(_newItems) = 0
    /\ \E ids \in SeqsUpTo(Ids, MaxWindow) :
           /\ Len(ids) >= 2
           /\ ItemsUpdated(NetworkItems(network, protocolVersion, ledger, ids))

Delivery(maxPending) ==
    /\ Len(_newItems) < maxPending
    /\ \E id \in Ids :
           ItemsUpdated(NetworkItems(network, protocolVersion, ledger, <<id>>))

\* milestone k of the ledger is the item k + 1, on either network
MilestoneDelivery ==
    \/ MilestonesUpdated(<< >>)
    \/ \E k \in MsIndices :
           MilestonesUpdated(<<[id |-> NetworkId(network, k + 1),
                                milestoneIndex |-> k]>>)

(***************************************************************************)
(* The life of the component: unmounting, and a change of the network in   *)
(* the route.  The networks alternate between og and chrysalis.            *)
(***************************************************************************)
NetworkProtocol(n) == IF n % 2 = 1 THEN "og" ELSE "chrysalis"

\* Visualizer.componentWillUnmount that forgets the timer without
\* cancelling the frame
forgetDrawTimer(timer, pending) == [_drawTimer |-> 0, frame |-> pending]

\* lines 1181-1184: cancelAnimationFrame(this._drawTimer) and
\* this._drawTimer = undefined, when the timer is set
cancelDrawTimer(timer, pending) ==
    IF timer # 0 THEN [_drawTimer |-> 0, frame |-> FALSE]
    ELSE [_drawTimer |-> timer, frame |-> pending]

\* closeItems, lines 164-167: clearInterval(this._timerId) and
\* this._timerId = undefined, when the timer is set
closeTimer(timerId, running) ==
    IF timerId # 0 THEN [_timerId |-> 0, intervals |-> running \ {timerId}]
    ELSE [_timerId |-> timerId, intervals |-> running]

\* componentWillUnmount (lines 1179-1187) after Feeds.componentWillUnmount
\* (lines 82-87: closeItems and closeMilestones unsubscribe the listeners)
Unmount ==
    /\ _isMounted
    /\ _isMounted' = FALSE
    /\ _itemSubscriptionId' = 0
    /\ _miSubscriptionId' = 0
    /\ _timerId' = closeTimer(_timerId, intervals)._timerId
    /\ intervals' = closeTimer(_timerId, intervals).intervals
    /\ UNCHANGED callbacks
    /\ _drawTimer' = cancelDrawTimer(_drawTimer, frame)._drawTimer
    /\ frame' = cancelDrawTimer(_drawTimer, frame).frame
    /\ pass' = [op |-> "unmount"]
    /\ UNCHANGED <<protocolVersion, ledger, nodes, links, _existingIds, _newItems,
                   _removeNodes, _msIndexToNode, _smallNetworkInterval, now,
                   ticks, filter, network>>
    /\ UNCHANGED feedVars

\* Feeds.componentDidUpdate (lines 66-77) when the network of the route has
\* changed: closeItems, closeMilestones, then initNetworkServices (lines
\* 263-272), whose buildItems subscribes to the feed of the new network and
\* hands its window to itemsUpdated (lines 128-151) and then awaits
\* updateTps
NetworkChanged(maxNetworks, window) ==
    /\ _isMounted
    /\ network < maxNetworks
    /\ network' = network + 1
    /\ protocolVersion' = NetworkProtocol(network')
    /\ _itemSubscriptionId' = 1
    /\ _miSubscriptionId' = 1
    /\ _timerId' = closeTimer(_timerId, intervals)._timerId
    /\ intervals' = closeTimer(_timerId, intervals).intervals
    /\ callbacks' = callbacks \cup {network'}
    /\ LET items == NetworkItems(network', protocolVersion', ledger, window)
           r == itemsUpdated(protocolVersion', items)
       IN  /\ _newItems' = r.pending
           /\ nodes' = r.G.nodes
           /\ links' = r.G.links
           /\ _msIndexToNode' = r.ms
           /\ pass' = [op |-> "network", items |-> items]
    /\ UNCHANGED <<ledger, _existingIds, _removeNodes, _smallNetworkInterval, now,
                   ticks, filter, _isMounted, _drawTimer, frame>>
    /\ UNCHANGED feedVars

\* the callback of buildItems (lines 133-150) of one build, resumed when
\* `await this.updateTps()' returns: line 148 starts the polling interval
\* and stores it in _timerId
StatsReturned(build) ==
    /\ build \in callbacks
    /\ callbacks' = callbacks \ {build}
    /\ _timerId' = build
    /\ intervals' = intervals \cup {build}
    /\ pass' = NoPass
    /\ UNCHANGED <<protocolVersion, ledger, nodes, links, _existingIds, _newItems,
                   _removeNodes, _msIndexToNode, _smallNetworkInterval, now,
                   ticks, filter, network, _isMounted, _drawTimer, frame,
                   _itemSubscriptionId, _miSubscriptionId>>
    /\ UNCHANGED feedVars

(***************************************************************************)
(* FeedClient (services/feedClient.ts).  A wire item is the serialized     *)
(* item the server sends; its id is derived from its content, so the       *)
(* content of wire item w is fixed.  On an og network 1..3 are             *)
(* transactions of value 0 and every further one a transaction of value    *)
(* w; on a chrysalis network 1..3 are messages with a transaction payload  *)
(* of value 0, 4 is an indexation message, 5 has a transaction payload of  *)
(* value 5, 6 is a milestone and every further one has no payload.         *)
(***************************************************************************)
WireIds == 1..NumWire
Listeners == 1..MaxListeners

WireValue(w) == IF w <= 3 THEN 0 ELSE w

WirePayload(w) ==
    IF w <= 3 \/ w = 5 THEN "Transaction"
    ELSE IF w = 4 THEN "Index"
    ELSE IF w = 6 THEN "MS"
    ELSE "None"

\* a raw item that is not the serialization of an item
Malformed == NumWire + 1
RawItems == WireIds \cup {Malformed}

\* deserializeMessage (line 235) and asTransactionObject (line 272) throw on it
Decodes(w) == w \in WireIds

\* convertItem (lines 226-288) where it returns: on a chrysalis network the
\* catch of line 257 leaves the defaults of lines 230-234 to an item that
\* does not decode, and its id is the hash of its bytes all the same
convertItem(pv, w) ==
    IF pv = "chrysalis"
    THEN IF Decodes(w)
         THEN [id |-> w,
               value |-> IF WirePayload(w) = "Transaction"
                         THEN WireValue(w) ELSE Undefined,
               payloadType |-> WirePayload(w),
               metaData |-> {}]
         ELSE [id |-> w, value |-> Undefined, payloadType |-> "None",
               metaData |-> {}]
    ELSE [id |-> w, value |-> WireValue(w), payloadType |-> "Transaction",
          metaData |-> {}]

\* convertItem throws: asTransactionObject is outside any try block
convertItemThrows(pv, w) == pv # "chrysalis" /\ ~Decodes(w)

\* metadata is a set of <<key, value>> pairs with one value per key;
\* { ...existing.metaData, ...update } (lines 121-124)
MetadataKeys(metaData) == {kv[1] : kv \in metaData}

\* the update in place of the metadata
ReplaceMetadata(existing, update) == update

ShallowMerge(existing, update) ==
    update \cup {kv \in existing : kv[1] \notin MetadataKeys(update)}

\* lines 117-127: existing = this._items.find(c => c.id === metadataId)
MergeMetadata(items, itemsMetadata) ==
    [i \in 1..Len(items) |->
        IF /\ items[i].id \in DOMAIN itemsMetadata
           /\ \A j \in 1..(i - 1) : items[j].id # items[i].id
        THEN [items[i] EXCEPT
                  !.metaData = ShallowMerge(@, itemsMetadata[items[i].id])]
        ELSE items[i]]

\* the categories lines 138-173 filter this._items by
IsZero(t) == t.payloadType = "Transaction" /\ t.value = 0
IsNonZero(t) == t.payloadType = "Transaction" /\ t.value # 0 /\ t.value # Undefined
IsTransaction(t) == t.payloadType = "Transaction"
IsIndex(t) == t.payloadType = "Index"
IsMS(t) == t.payloadType = "MS"
IsNone(t) == t.payloadType = "None"

InFilter(kind, t) ==
    CASE kind = "zero" -> IsZero(t)
      [] kind = "nonZero" -> IsNonZero(t)
      [] kind = "transactionPayload" -> IsTransaction(t)
      [] kind = "indexPayload" -> IsIndex(t)
      [] kind = "msPayload" -> IsMS(t)
      [] kind = "nonePayload" -> IsNone(t)

\* the positions of the items one filter keeps, newest first
Positions(items, kind) ==
    SelectSeq([i \in 1..Len(items) |-> i], LAMBDA i : InFilter(kind, items[i]))

\* category.slice(0, count): the positions of the newest excess
ToRemoveNewest(items, kind) ==
    LET category == Positions(items, kind)
        count == Len(category) - MIN_ITEMS_PER_TYPE
    IN  IF count > 0 THEN SeqSet(SubSeq(category, 1, count)) ELSE {}

\* category.slice(-count) when count > 0: the positions of the oldest excess
ToRemove(items, kind) ==
    LET category == Positions(items, kind)
        count == Len(category) - MIN_ITEMS_PER_TYPE
    IN  IF count > 0
        THEN SeqSet(SubSeq(category, Len(category) - count + 1, Len(category)))
        ELSE {}

\* removeItems that trims the window as one category
removeItemsAnyType(pv, items) ==
    LET count == Len(items) - MIN_ITEMS_PER_TYPE
    IN  IF count > 0 THEN (Len(items) - count + 1)..Len(items) ELSE {}

\* lines 136-173: removeItems, as positions of this._items
removeItems(pv, items) ==
    IF pv = "og"
    THEN ToRemove(items, "zero") \cup ToRemove(items, "nonZero")
    ELSE ToRemove(items, "transactionPayload") \cup ToRemove(items, "indexPayload")
         \cup ToRemove(items, "msPayload") \cup ToRemove(items, "nonePayload")

\* line 175: this._items.filter(t => !removeItems.includes(t))
TrimItems(pv, items) ==
    LET remove == removeItems(pv, items)
        keep == SelectSeq([i \in 1..Len(items) |-> i], LAMBDA i : i \notin remove)
    IN  [k \in 1..Len(keep) |-> items[keep[k]]]

\* lines 180-182: for (const sub in this._subscribers); the listeners in
\* `failing' throw, and the first of them that is called ends the loop
FanOut(subscribers, newItems, itemsMetadata, failing) ==
    LET last == IF \E i \in 1..Len(subscribers) : subscribers[i] \in failing
                THEN Min({i \in 1..Len(subscribers) : subscribers[i] \in failing})
                ELSE Len(subscribers)
    IN  [i \in 1..last |->
            [listener |-> subscribers[i], newItems |-> newItems,
             metaData |-> itemsMetadata]]

\* the filter without the existing-id test
FilterAll(converted, ids) == converted

\* lines 129-131: .filter(nh => !this._existingIds.includes(nh.id))
FilterNew(converted, ids) == SelectSeq(converted, LAMBDA nh : ~InSeq(nh.id, ids))

\* one "transactions" handler on a message that carries this._subscriptionId
\* (lines 117-182); st is the window, the id index and the listener calls.
\* A convertItem that throws ends the handler after the metadata merge.
TransactionsHandler(pv, st, subscribers, message, failing) ==
    LET merged == MergeMetadata(st.items, message.itemsMetadata)
        throws == \E i \in 1..Len(message.items) :
                      convertItemThrows(pv, message.items[i])
        converted == [i \in 1..Len(message.items) |->
                         convertItem(pv, message.items[i])]
        filteredNewItems == FilterNew(converted, st.ids)
        kept == IF Len(filteredNewItems) > 0
                THEN TrimItems(pv, filteredNewItems \o merged)
                ELSE merged
    IN  IF throws
        THEN [st EXCEPT !.items = merged]
        ELSE [items |-> kept,
              ids |-> IF Len(filteredNewItems) > 0
                      THEN [i \in 1..Len(kept) |-> kept[i].id]
                      ELSE st.ids,
              calls |-> st.calls \o
                        FanOut(subscribers, filteredNewItems,
                               message.itemsMetadata, failing)]

\* the socket hands the message to every handler registered for the event
RECURSIVE RunHandlers(_, _, _, _, _, _)
RunHandlers(n, pv, st, subscribers, message, failing) ==
    IF n = 0 THEN st
    ELSE RunHandlers(n - 1, pv,
                     TransactionsHandler(pv, st, subscribers, message, failing),
                     subscribers, message, failing)

(***************************************************************************)
(* The calls and socket events of FeedClient.  Every emit of "subscribe"   *)
(* comes with one more "subscribe" and one more "transactions" handler     *)
(* (lines 104-116), so `handlers' counts the three together, and the       *)
(* server names the subscription it opens for the n-th emit n.             *)
(***************************************************************************)
\* subscribe (lines 95-189), called by a listener that is not registered
Subscribe(listener, maxHandlers) ==
    /\ ~InSeq(listener, _subscribers)
    /\ _subscriptionId # 0 \/ handlers < maxHandlers
    /\ _subscribers' = Append(_subscribers, listener)
    /\ IF _subscriptionId = 0
       THEN /\ handlers' = handlers + 1
            /\ responses' = Append(responses, handlers + 1)
            /\ active' = active \cup {handlers + 1}
       ELSE UNCHANGED <<handlers, responses, active>>
    /\ pass' = NoPass
    /\ UNCHANGED <<protocolVersion, ledger, engineVars, _items, _feedIds,
                   _subscriptionId>>

\* unsubscribe (lines 195-211), called by a registered listener
Unsubscribe(listener) ==
    /\ InSeq(listener, _subscribers)
    /\ _subscribers' = SelectSeq(_subscribers, LAMBDA l : l # listener)
    /\ active' = IF _subscriptionId # 0 /\ Len(_subscribers') = 0
                 THEN active \ {_subscriptionId}
                 ELSE active
    /\ _subscriptionId' = 0
    /\ pass' = NoPass
    /\ UNCHANGED <<protocolVersion, ledger, engineVars, _items, _feedIds,
                   handlers, responses>>

\* the "subscribe" handlers (lines 105-109) on the server's response
SubscribeResponse(error) ==
    /\ Len(responses) > 0
    /\ responses' = Tail(responses)
    /\ _subscriptionId' = IF ~error THEN Head(responses) ELSE _subscriptionId
    /\ pass' = NoPass
    /\ UNCHANGED <<protocolVersion, ledger, engineVars, _items, _feedIds,
                   _subscribers, handlers, active>>

\* the "transactions" handlers (lines 110-184) on a message of the server
Transactions(message, failing) ==
    /\ handlers > 0
    /\ message.subscriptionId \in active
    /\ LET accepted == message.subscriptionId = _subscriptionId
           st == [items |-> _items, ids |-> _feedIds, calls |-> << >>]
           r == IF accepted
                THEN RunHandlers(handlers, protocolVersion, st, _subscribers,
                                 message, failing)
                ELSE st
       IN  /\ _items' = r.items
           /\ _feedIds' = r.ids
           /\ pass' = [op |-> "message", accepted |-> accepted, before |-> _items,
                       known |-> _feedIds, message |-> message,
                       failing |-> failing, calls |-> r.calls]
    /\ UNCHANGED <<protocolVersion, ledger, engineVars, _subscriptionId,
                   _subscribers, handlers, responses, active>>

\* the messages of the server: up to maxMessage different raw items, in
\* ascending order, with one of the metadata updates `updates', while the
\* listeners of one of the sets `failures' throw
Ascending(s) == \A i \in 1..(Len(s) - 1) : s[i] < s[i + 1]

ServerMessage(maxMessage, raw, updates, failures) ==
    \E s \in active, md \in updates, failing \in failures :
        \E items \in {q \in SeqsUpTo(raw, maxMessage) : Ascending(q)} :
            Transactions([subscriptionId |-> s, items |-> items,
                          itemsMetadata |-> md], failing)

\* the metadata of the last wire item, or of none
ItemsMetadata == {<< >>, (NumWire :> {<<"confirmed", 1>>})}

\* the metadata updates of the last wire item: one key of
\* IFeedItemMetadata at a time
Updates ==
    {<< >>} \cup {(NumWire :> {kv}) :
                     kv \in {<<"confirmed", 1>>, <<"confirmed", 2>>,
                              <<"milestone", 1>>}}

\* no listener throws
NoFailure == {{}}

\* at most one listener throws
OneFailure == {{}} \cup {{listener} : listener \in Listeners}

InitFeedClient ==
    /\ _items = << >>
    /\ _feedIds = << >>
    /\ _subscriptionId = 0
    /\ _subscribers = << >>
    /\ handlers = 0
    /\ responses = << >>
    /\ active = {}

InitEngine ==
    /\ nodes = << >>
    /\ links = << >>
    /\ _existingIds = << >>
    /\ _newItems = << >>
    /\ _removeNodes = << >>
    /\ _msIndexToNode = << >>
    /\ _smallNetworkInterval = 0
    /\ now = TickMs
    /\ ticks = 0
    /\ filter = << >>
    /\ network = 1
    /\ _isMounted = TRUE
    /\ _drawTimer = 1
    /\ frame = TRUE
    /\ _itemSubscriptionId = 1
    /\ _miSubscriptionId = 1
    /\ _timerId = 0
    /\ intervals = {}
    /\ callbacks = {1}
    /\ pass = NoPass

(***************************************************************************)
(* Spec: the engine on an og network, where the items carry no milestone.  *)
(***************************************************************************)
Init ==
    /\ protocolVersion = "og"
    /\ ledger \in Ledgers
    /\ InitEngine
    /\ InitFeedClient

Next ==
    \/ Tick(MaxTicks)
    \/ FirstDelivery
    \/ Delivery(MaxPending)
    \/ DrawUpdates

Spec == Init /\ [][Next]_vars

(***************************************************************************)
(* SpecMs: the engine with its milestone tracking, on an og network (the   *)
(* milestones come through milestonesUpdated) or a chrysalis network (the  *)
(* messages carry metaData.MS).                                            *)
(***************************************************************************)
MsLedger ==
    CHOOSE L \in Ledgers : \A id \in Ids : id > 3 => L[id] = <<id - 1, id - 1>>

InitMs ==
    /\ protocolVersion \in {"og", "chrysalis"}
    /\ ledger = MsLedger
    /\ InitEngine
    /\ InitFeedClient

NextMs ==
    \/ Tick(MsMaxTicks)
    \/ Delivery(MsMaxPending)
    \/ MilestoneDelivery
    \/ DrawUpdates

SpecMs == InitMs /\ [][NextMs]_vars

(***************************************************************************)
(* SpecLife: the engine up to and after its teardown.  SpecNetworks: the   *)
(* engine while the route goes from one network to the next.               *)
(***************************************************************************)
InitLife ==
    /\ protocolVersion = NetworkProtocol(1)
    /\ ledger = MsLedger
    /\ InitEngine
    /\ InitFeedClient

NextLife ==
    \/ Tick(MaxTicks)
    \/ Delivery(MsMaxPending)
    \/ MilestoneDelivery
    \/ DrawUpdates
    \/ Unmount

SpecLife == InitLife /\ [][NextLife]_vars

NextNetworks ==
    \/ Delivery(MsMaxPending)
    \/ MilestoneDelivery
    \/ DrawUpdates
    \/ \E window \in SeqsUpTo(Ids, 1) : NetworkChanged(NumNetworks, window)

SpecNetworks == InitLife /\ [][NextNetworks]_vars

(***************************************************************************)
(* SpecView: the engine with the confirmations and the search box.         *)
(***************************************************************************)
NextView ==
    \/ Delivery(MsMaxPending)
    \/ DrawUpdates
    \/ \E confirmed \in {q \in SeqsUpTo(Ids, MaxConfirmed) : Ascending(q)} :
           ConfirmedUpdated(confirmed)
    \/ \E value \in Filters : FilterChanged(value)

SpecView == InitMs /\ [][NextView]_vars

(***************************************************************************)
(* SpecFeed: the feed client with its listeners and its server.            *)
(***************************************************************************)
InitFeed ==
    /\ protocolVersion \in {"og", "chrysalis"}
    /\ ledger = MsLedger
    /\ InitEngine
    /\ InitFeedClient

NextFeed ==
    \/ \E listener \in Listeners : Subscribe(listener, MaxHandlers)
    \/ \E listener \in Listeners : Unsubscribe(listener)
    \/ \E error \in BOOLEAN : SubscribeResponse(error)
    \/ ServerMessage(MaxMessage, WireIds, ItemsMetadata, NoFailure)

SpecFeed == InitFeed /\ [][NextFeed]_vars

(***************************************************************************)
(* SpecBurst: the feed client with listeners that stay, under messages of   *)
(* up to MaxBurst items.                                                   *)
(***************************************************************************)
NextBurst ==
    \/ \E listener \in Listeners : Subscribe(listener, MaxHandlers)
    \/ SubscribeResponse(FALSE)
    \/ ServerMessage(MaxBurst, WireIds, ItemsMetadata, NoFailure)

SpecBurst == InitFeed /\ [][NextBurst]_vars

(***************************************************************************)
(* SpecListeners: the feed client with listeners that stay and may throw,  *)
(* behind one "transactions" handler.                                      *)
(***************************************************************************)
NextListeners ==
    \/ \E listener \in Listeners : Subscribe(listener, 1)
    \/ SubscribeResponse(FALSE)
    \/ ServerMessage(MaxMessage, WireIds, ItemsMetadata, OneFailure)

SpecListeners == InitFeed /\ [][NextListeners]_vars

(***************************************************************************)
(* SpecDecode: the feed client on messages of up to MaxBatch raw items,    *)
(* among them one that does not deserialize.                               *)
(***************************************************************************)
NextDecode ==
    \/ \E listener \in Listeners : Subscribe(listener, 1)
    \/ SubscribeResponse(FALSE)
    \/ ServerMessage(MaxBatch, RawItems, ItemsMetadata, NoFailure)

SpecDecode == InitFeed /\ [][NextDecode]_vars

(***************************************************************************)
(* SpecMetadata: the feed client on messages whose metadata updates set    *)
(* one key or another, to one value or another.                            *)
(***************************************************************************)
NextMetadata ==
    \/ \E listener \in Listeners : Subscribe(listener, 1)
    \/ SubscribeResponse(FALSE)
    \/ ServerMessage(MaxMessage, WireIds, Updates, NoFailure)

SpecMetadata == InitFeed /\ [][NextMetadata]_vars

(***************************************************************************)
(* Vocabulary of the claims about an update pass.  pass holds the pass     *)
(* that has just run: its items, its added list, the graph before it,      *)
(* after the insertion loop (inserted), after the eviction sweep's drain   *)
(* (drained), and the ids the sweep queued.                                *)
(***************************************************************************)
JustDrew == pass.op = "draw"

NodeIds(G) == DOMAIN G.nodes
LinkSet(G) == SeqSet(G.links)
Degree(G, id) == Len(nodeLinks(G, id))
EdgesClosed(G) ==
    \A i \in 1..Len(G.links) :
        G.links[i].fromId \in NodeIds(G) /\ G.links[i].toId \in NodeIds(G)

ItemParents(item) == {item.parent1, item.parent2} \ {0}
Mentioned(items) ==
    UNION { {items[k].id} \cup ItemParents(items[k]) : k \in 1..Len(items) }
MentionedLinks(items) ==
    UNION { { [fromId |-> p, toId |-> items[k].id] : p \in ItemParents(items[k]) }
            : k \in 1..Len(items) }

\* C1: after every update pass the graph holds at most MAX_ITEMS nodes.
C1_NodeCap == JustDrew => Cardinality(NodeIds(Graph)) <= MAX_ITEMS

\* C2: every link has both its endpoints in the node set, after the insertion
\* loop, after the removal drain and at the end of the pass (pruning included).
C2_NoDanglingEdges ==
    /\ EdgesClosed(Graph)
    /\ JustDrew => EdgesClosed(pass.inserted) /\ EdgesClosed(pass.drained)

\* a pass has removed a node which had links, and left links in the graph
C2_Witness ==
    /\ JustDrew
    /\ \E id \in NodeIds(pass.inserted) \ NodeIds(Graph) : Degree(pass.inserted, id) > 0
    /\ Len(links) > 0

\* item k of the pass is the first of its id in the batch and had no node
FirstAndNew(k) ==
    /\ pass.items[k].id \notin NodeIds(pass.before)
    /\ \A j \in 1..(k - 1) : pass.items[j].id # pass.items[k].id

\* C3: an item whose id already has a node adds no node and no id to added:
\* added has no id twice and no id that had a node before the pass, every
\* added id comes from an item that is the first of its id in the batch and
\* had no node, and the node of a repeated item is left as it was.
C3_RepeatAddsNothing ==
    JustDrew =>
        /\ NoDup(pass.added)
        /\ \A i \in 1..Len(pass.added) :
               /\ pass.added[i] \notin NodeIds(pass.before)
               /\ \E k \in 1..Len(pass.items) :
                      /\ FirstAndNew(k)
                      /\ pass.added[i] \in {pass.items[k].id} \cup ItemParents(pass.items[k])
        /\ Cardinality(NodeIds(pass.inserted)) =
               Cardinality(NodeIds(pass.before)) + Len(pass.added)
        /\ \A k \in 1..Len(pass.items) :
               pass.items[k].id \in NodeIds(pass.before) =>
                   pass.inserted.nodes[pass.items[k].id] =
                       pass.before.nodes[pass.items[k].id]

\* a pass that carried an id twice, and a pass that carried an id with a node
C3_Witness ==
    /\ JustDrew
    /\ \/ \E j, k \in 1..Len(pass.items) : j < k /\ pass.items[j].id = pass.items[k].id
       \/ /\ Len(pass.added) > 0
          /\ \E k \in 1..Len(pass.items) : pass.items[k].id \in NodeIds(pass.before)

(***************************************************************************)
(* Connected components, by closure under the links in both directions.    *)
(***************************************************************************)
Neighbours(G, S) ==
    { OtherEnd(G.links[i], n) : i \in 1..Len(G.links), n \in S } \cap
    { m \in NodeIds(G) : \E i \in 1..Len(G.links), n \in S :
          Touches(G.links[i], n) /\ Touches(G.links[i], m) }

RECURSIVE Closure(_, _)
Closure(G, S) ==
    IF Neighbours(G, S) \subseteq S THEN S ELSE Closure(G, S \cup Neighbours(G, S))

Component(G, n) == Closure(G, {n})
Components(G) == { Component(G, n) : n \in NodeIds(G) }

SubGraphOn(G, S) ==
    [nodes |-> Restrict(G.nodes, S),
     links |-> SelectSeq(G.links, LAMBDA l : l.fromId \in S /\ l.toId \in S)]

\* removeSmallNetworks has run on a graph whose nodes all arrived more than
\* 60 s before and whose components are big and small
C6_TwoComponents(big, small) ==
    /\ JustDrew /\ pass.pruned
    /\ \A n \in NodeIds(pass.drained) :
           pass.at - pass.drained.nodes[n].added > SMALL_NETWORK_AGE
    /\ big # small
    /\ Components(pass.drained) = {big, small}
    /\ Cardinality(big) * 100 >= Len(_existingIds) * SMALL_NETWORK_PERCENT
    /\ Cardinality(small) * 100 < Len(_existingIds) * SMALL_NETWORK_PERCENT

C7_BatchIntoEmptyGraph ==
    ( /\ JustDrew
      /\ NodeIds(pass.before) = {}
      /\ \A j, k \in 1..Len(pass.items) :
             j # k => pass.items[j].id # pass.items[k].id )
    => /\ NodeIds(pass.inserted) = Mentioned(pass.items)
       /\ LinkSet(pass.inserted) = MentionedLinks(pass.items)
       /\ NoDup(pass.inserted.links)
       /\ NoDup(pass.added)
       /\ SeqSet(pass.added) = Mentioned(pass.items)

\* C8: a node that had links before the removal drain and is still in the
\* graph after it has links left: a neighbour whose degree the drain brought
\* to zero was deleted by the drain.
C8_CascadeOrphans ==
    JustDrew =>
        \A n \in NodeIds(pass.drained) :
            Degree(pass.inserted, n) > 0 => Degree(pass.drained, n) > 0

IsPlaceholder(G, id) == id \in NodeIds(G) /\ G.nodes[id].feedItem = Placeholder(id)

\* C9: an item that arrives for a placeholder node replaces the node's
\* payload, keeps the links the node had and adds the links from the item's
\* parents.
C9_PlaceholderUpgrade ==
    JustDrew =>
        \A k \in 1..Len(pass.items) :
            IsPlaceholder(pass.before, pass.items[k].id) =>
                /\ pass.inserted.nodes[pass.items[k].id].feedItem = pass.items[k]
                /\ LinkSet(pass.before) \subseteq LinkSet(pass.inserted)
                /\ \A p \in ItemParents(pass.items[k]) :
                       [fromId |-> p, toId |-> pass.items[k].id]
                           \in LinkSet(pass.inserted)

(***************************************************************************)
(* C5: milestone staleness.                                                *)
(***************************************************************************)
Tracked == pass.op = "track"

\* the entry of msIndex points at a node that is not in graph G
NodeGone(ms, msIndex, G) == ~getNode(G, ms[msIndex].id)

\* one step of the engine seen from an entry whose node is not in the graph:
\* less than 300 s after its lastSeen the step leaves it in the index
\* (unless the step is a draw pass that put the node back into the graph),
\* and a tracking pass that runs more than 300 s after it deletes it
C5_Step ==
    \A k \in DOMAIN _msIndexToNode :
        NodeGone(_msIndexToNode, k, Graph) =>
            /\ (now - _msIndexToNode[k].lastSeen < MS_STALE
                   => \/ k \in DOMAIN _msIndexToNode'
                      \/ /\ pass'.op = "draw"
                         /\ getNode(pass'.inserted, _msIndexToNode[k].id))
            /\ ((/\ pass'.op = "track"
                 /\ k \in DOMAIN pass'.msBefore
                 /\ pass'.at - pass'.msBefore[k].lastSeen > MS_STALE)
                   => k \notin DOMAIN _msIndexToNode')

Accepted == pass.op = "message" /\ pass.accepted

\* the items of that message, converted
Burst ==
    [i \in 1..Len(pass.message.items) |->
        convertItem(protocolVersion, pass.message.items[i])]

\* those of them that were not in the existing-id index
BurstNew == SelectSeq(Burst, LAMBDA nh : ~InSeq(nh.id, pass.known))

Count(items, Test(_)) == Len(SelectSeq(items, Test))

\* the categories other than the zero-value transactions
OtherCategories == {"Transaction", "Index", "MS", "None"}
InCategory(t, c) == ~IsZero(t) /\ t.payloadType = c

\* the items a burst of transactions does not compete with: the nonzero-value
\* transactions of an og network, the items without a transaction payload
\* elsewhere
OtherRetained(t) ==
    IF protocolVersion = "og" THEN ~IsZero(t) ELSE ~IsTransaction(t)

IdsOf(items) == [i \in 1..Len(items) |-> items[i].id]

C10_FanOutOnce ==
    Accepted =>
        /\ Len(pass.calls) = Len(_subscribers)
        /\ \A i \in 1..Len(pass.calls) :
               /\ pass.calls[i].listener = _subscribers[i]
               /\ pass.calls[i].newItems = BurstNew
               /\ pass.calls[i].metaData = pass.message.itemsMetadata
(***************************************************************************)
(* C11: a listener that fails.                                             *)
(***************************************************************************)
\* what the handlers would have left had no listener thrown
Unfailed ==
    RunHandlers(handlers, protocolVersion,
                [items |-> pass.before, ids |-> pass.known, calls |-> << >>],
                _subscribers, pass.message, {})

\* C11: when one listener fails while handling a batch, every other
\* registered listener still receives that batch, and the window and the
\* existing-id set are the same as if no listener had failed
C11_FailureIsolated ==
    (Accepted /\ \E i \in 1..Len(_subscribers) : _subscribers[i] \in pass.failing)
        => /\ \A i \in 1..Len(_subscribers) :
                  _subscribers[i] \notin pass.failing =>
                      \E j \in 1..Len(pass.calls) :
                          /\ pass.calls[j].listener = _subscribers[i]
                          /\ pass.calls[j].newItems = BurstNew
                          /\ pass.calls[j].metaData = pass.message.itemsMetadata
           /\ _items = Unfailed.items
           /\ _feedIds = Unfailed.ids

(***************************************************************************)
(* C12: the subscriptions the client has open with the server.             *)
(***************************************************************************)
\* C12: the client holds at most one subscription with the server at a
\* time, requested or open: a "subscribe" request is sent only when none
\* is open or awaiting its response
C12_OneSubscription == Cardinality(active) <= 1

(***************************************************************************)
(* C13: a raw item that does not decode.                                   *)
(***************************************************************************)
\* what the handlers would have left had the message come without the raw
\* items that do not decode
Decodable ==
    RunHandlers(handlers, protocolVersion,
                [items |-> pass.before, ids |-> pass.known, calls |-> << >>],
                _subscribers,
                [pass.message EXCEPT !.items = SelectSeq(@, Decodes)],
                pass.failing)

\* C13: a raw item that cannot be decoded is dropped: it is neither in the
\* newItems the listeners get nor in the window, and the other items of
\* its message are reconciled and delivered as if it had not been there
C13_UndecodableDropped ==
    (Accepted /\ \E i \in 1..Len(pass.message.items) :
                     ~Decodes(pass.message.items[i]))
        => /\ \A i \in 1..Len(_items) : Decodes(_items[i].id)
           /\ \A j \in 1..Len(pass.calls) :
                  \A i \in 1..Len(pass.calls[j].newItems) :
                      Decodes(pass.calls[j].newItems[i].id)
           /\ _items = Decodable.items
           /\ _feedIds = Decodable.ids
           /\ pass.calls = Decodable.calls

(***************************************************************************)
(* C14: metadata updates.                                                  *)
(***************************************************************************)
Resident(id) == \E i \in 1..Len(pass.before) : pass.before[i].id = id
ResidentItem(id) ==
    pass.before[CHOOSE i \in 1..Len(pass.before) : pass.before[i].id = id]

\* what the handlers would have left had the message carried no metadata
NoMetadata ==
    RunHandlers(handlers, protocolVersion,
                [items |-> pass.before, ids |-> pass.known, calls |-> << >>],
                _subscribers,
                [pass.message EXCEPT !.itemsMetadata = << >>],
                pass.failing)

Occurrences(items, id) == Cardinality({i \in 1..Len(items) : items[i].id = id})

C16_AddedSurviveDrain ==
    JustDrew => \A i \in 1..Len(pass.added) :
                    /\ ~InSeq(pass.added[i], pass.queued)
                    /\ pass.added[i] \in NodeIds(pass.drained)

(***************************************************************************)
(* C17: the milestone index after the removal drain.                       *)
(***************************************************************************)
\* the nodes the drain deleted, the queued ones and their neighbours
Drained == NodeIds(pass.inserted) \ NodeIds(pass.drained)

\* C17: after the removal drain, a queued node that carried a milestone
\* index is absent from the graph and the milestone index holds no entry
\* for its milestone index, and the same holds for every zero-degree
\* neighbour the drain deleted
C17_DrainClearsIndex ==
    JustDrew =>
        /\ \A i \in 1..Len(pass.queued) : pass.queued[i] \notin NodeIds(pass.drained)
        /\ \A id \in Drained :
               MSOf(pass.inserted.nodes[id].feedItem) # 0 =>
                   MSOf(pass.inserted.nodes[id].feedItem)
                       \notin DOMAIN pass.indexDrained

(***************************************************************************)
(* C18: confirmedUpdated.                                                  *)
(***************************************************************************)
C18_Step ==
    pass'.op = "confirm" =>
        /\ DOMAIN nodes' = DOMAIN nodes
        /\ \A id \in DOMAIN nodes :
               nodes'[id] = IF InSeq(id, pass'.confirmed)
                            THEN [nodes[id] EXCEPT !.feedItem.confirmed = TRUE]
                            ELSE nodes[id]
        /\ links' = links
        /\ _existingIds' = _existingIds
        /\ _removeNodes' = _removeNodes
        /\ _msIndexToNode' = _msIndexToNode

\* C18: confirmedUpdated sets confirmed on exactly the existing nodes
\* whose ids are listed and leaves the node set, the links, the FIFO
\* sequence, the removal queue and the milestone index as they were; a
\* listed id that has no node is ignored
C18_MarkConfirmed == [][C18_Step]_vars

\* a call that listed an unconfirmed node, beside a node it did not list
\* and that stays unconfirmed
C18_Witness ==
    /\ pass.op = "confirm"
    /\ \E id \in SeqSet(pass.confirmed) :
           /\ id \in DOMAIN pass.before.nodes
           /\ ~pass.before.nodes[id].feedItem.confirmed
           /\ nodes[id].feedItem.confirmed
    /\ \E id \in DOMAIN nodes :
           ~InSeq(id, pass.confirmed) /\ ~nodes[id].feedItem.confirmed

(***************************************************************************)
(* C19: the highlight query.                                               *)
(***************************************************************************)
JustRestyled == pass.op = "restyle"

Blank(text) == \A i \in 1..Len(text) : text[i] = " "

\* the pattern the filter stands for: the filter without the blanks around it
Pattern(text) ==
    IF Blank(text) THEN << >>
    ELSE LET first == Min({i \in 1..Len(text) : text[i] # " "})
             last == 0 - Min({0 - i : i \in {j \in 1..Len(text) : text[j] # " "}})
         IN  SubSeq(text, first, last)

\* the answer of the highlight query for every node the search box restyled
Highlighted(id) == pass.styles[id].color = COLOR_SEARCH_RESULT

C19_Query ==
    JustRestyled =>
        \A id \in DOMAIN pass.styles :
            IF Blank(filter) THEN ~Highlighted(id)
            ELSE Highlighted(id) <=>
                 \/ RegExpTest(Pattern(filter), IdText(protocolVersion, id))
                 \/ /\ MSOf(nodes[id].feedItem) # 0
                    /\ RegExpTest(Pattern(filter),
                                  NumberText(MSOf(nodes[id].feedItem)))

C19_Step ==
    pass'.op = "restyle" =>
        /\ nodes' = nodes
        /\ links' = links
        /\ _existingIds' = _existingIds
        /\ _newItems' = _newItems
        /\ _removeNodes' = _removeNodes
        /\ _msIndexToNode' = _msIndexToNode

\* C19: the highlight query answers false for every node when the pattern
\* is empty or blank; with a pattern it answers true exactly for the nodes
\* whose id or one of whose metadata values matches; and it changes no
\* graph state
C19_HighlightQuery == [](C19_Query) /\ [][C19_Step]_vars

\* a search that singled out one node by a metadata value and not another,
\* whose id it does not match either
C19_Witness ==
    /\ JustRestyled
    /\ ~Blank(filter)
    /\ \E id \in DOMAIN pass.styles :
           /\ Highlighted(id)
           /\ ~RegExpTest(Pattern(filter), IdText(protocolVersion, id))
    /\ \E id \in DOMAIN pass.styles : ~Highlighted(id)

(***************************************************************************)
(* C20: the style of a node.                                               *)
(***************************************************************************)
JustStyled == pass.op \in {"restyle", "confirm"}

IsHighlighted(id) ==
    testForHighlight(highlightNodesRegEx(filter), IdText(protocolVersion, id),
                     nodes[id])
IsMilestone(id) == MSOf(nodes[id].feedItem) # 0
IsConfirmed(id) == nodes[id].feedItem.confirmed
HasValue(id) ==
    /\ "value" \in DOMAIN nodes[id].feedItem
    /\ nodes[id].feedItem.value # Undefined
    /\ nodes[id].feedItem.value # 0

\* C20: the color of a node is chosen by the precedence highlighted, then
\* milestone, then confirmed with a nonzero value, then confirmed with a
\* zero value or none, then pending; its size is large exactly when it is
\* a milestone or carries a defined nonzero value, whatever its highlight
\* and its confirmation
C20_StylePrecedence ==
    JustStyled =>
        \A id \in DOMAIN pass.styles :
            /\ IsHighlighted(id) => pass.styles[id].color = COLOR_SEARCH_RESULT
            /\ (~IsHighlighted(id) /\ IsMilestone(id))
                   => pass.styles[id].color = COLOR_MILESTONE
            /\ (~IsHighlighted(id) /\ ~IsMilestone(id) /\ IsConfirmed(id)
                    /\ HasValue(id))
                   => pass.styles[id].color = COLOR_VALUE_CONFIRMED
            /\ (~IsHighlighted(id) /\ ~IsMilestone(id) /\ IsConfirmed(id)
                    /\ ~HasValue(id))
                   => pass.styles[id].color = COLOR_ZERO_CONFIRMED
            /\ (~IsHighlighted(id) /\ ~IsMilestone(id) /\ ~IsConfirmed(id))
                   => pass.styles[id].color = COLOR_PENDING
            /\ pass.styles[id].size =
                   IF IsMilestone(id) \/ HasValue(id)
                   THEN VERTEX_SIZE_LARGE ELSE VERTEX_SIZE_REGULAR

\* a highlighted, confirmed milestone was styled: the search color, large
C20_Witness ==
    /\ JustStyled
    /\ \E id \in DOMAIN pass.styles :
           /\ IsHighlighted(id) /\ IsMilestone(id) /\ IsConfirmed(id)
           /\ pass.styles[id] = [color |-> COLOR_SEARCH_RESULT,
                                 size |-> VERTEX_SIZE_LARGE]

(***************************************************************************)
(* C21: after teardown.                                                    *)
(***************************************************************************)
\* once unmounted no frame is requested, the timer is forgotten and the
\* listeners are unregistered
C21_Quiet ==
    ~_isMounted => /\ ~frame
                   /\ _drawTimer = 0
                   /\ _itemSubscriptionId = 0
                   /\ _miSubscriptionId = 0

\* once unmounted no step is an update pass, and none changes the graph,
\* the FIFO sequence, the removal queue or the milestone index
C21_Step ==
    ~_isMounted =>
        /\ pass'.op \notin {"draw", "track"}
        /\ ~_isMounted'
        /\ UNCHANGED <<nodes, links, _existingIds, _removeNodes, _msIndexToNode>>

\* C21: after componentWillUnmount no further update pass runs: the draw
\* loop is cancelled and never re-armed, the feed listeners are
\* unregistered, and no later callback changes the graph, the FIFO
\* sequence, the removal queue or the milestone index
C21_NoPassAfterTeardown == [](C21_Quiet) /\ [][C21_Step]_vars

\* time has passed since a teardown that left items pending and a graph
C21_Witness ==
    /\ ~_isMounted
    /\ pass.op = "none"
    /\ Len(_newItems) > 0
    /\ DOMAIN nodes # {}

(***************************************************************************)
(* C22: a change of network.                                               *)
(***************************************************************************)
\* C22: after the network has changed, the engine state in use holds
\* nothing that came from the previous network: the graph, the FIFO
\* sequence and the milestone index start empty and the pending items
\* are those of the new network
C22_SwitchStartsEmpty ==
    pass.op = "network" =>
        /\ DOMAIN nodes = {}
        /\ Len(links) = 0
        /\ Len(_existingIds) = 0
        /\ _newItems = pass.items
        /\ \A k \in DOMAIN _msIndexToNode :
               \E i \in 1..Len(pass.items) : pass.items[i].id = _msIndexToNode[k].id

(***************************************************************************)
(* Pruning of small networks, iteration by iteration.                      *)
(***************************************************************************)
JustPruned == JustDrew /\ pass.pruned

\* the latest arrival time among the nodes S of graph G
LatestArrival(G, S) ==
    CHOOSE t \in { G.nodes[n].added : n \in S } :
        \A n \in S : G.nodes[n].added <= t

IsLargest(G, S) ==
    \A other \in Components(G) : Cardinality(other) <= Cardinality(S)

IsRecent(G, S) == pass.at - LatestArrival(G, S) <= SMALL_NETWORK_AGE

\* C23: removeSmallNetworks removes no node of the largest connected
\* component of the graph it starts an iteration on (of one of them when
\* several components have the largest size), and no node of a component
\* whose latest node arrived within the last 60 s.
C23_LargestAndRecentKept ==
    JustPruned =>
        \A i \in 1..Len(pass.iterations) :
            LET it == pass.iterations[i]
            IN  /\ Components(it.graph) # {} =>
                       \E S \in Components(it.graph) :
                           IsLargest(it.graph, S) /\ S \subseteq NodeIds(it.after)
                /\ \A S \in Components(it.graph) :
                       IsRecent(it.graph, S) => S \subseteq NodeIds(it.after)

\* C24: removeSmallNetworks terminates: a turn of its loop that leads to
\* another turn ends with fewer nodes in the graph than it started with, the
\* next turn starts from that graph, and the loop ends with a turn that
\* removes nothing, within as many turns as the graph had nodes, plus one.
C24_PruningTerminates ==
    JustPruned =>
        LET its == pass.iterations
        IN  /\ Len(its) >= 1
            /\ its[1].graph = pass.drained
            /\ Len(its) <= Cardinality(NodeIds(pass.drained)) + 1
            /\ \A i \in 1..(Len(its) - 1) :
                   /\ its[i].removed
                   /\ Cardinality(NodeIds(its[i].after))
                          < Cardinality(NodeIds(its[i].graph))
                   /\ its[i + 1].graph = its[i].after
            /\ ~its[Len(its)].removed
            /\ its[Len(its)].after = Graph

\* the loop took a second turn
C24_Witness ==
    /\ JustPruned
    /\ Len(pass.iterations) = 2
    /\ pass.iterations[1].removed
    /\ NodeIds(Graph) # {}

(***************************************************************************)
(* C25: the trimming of the window after an ingest.                        *)
(***************************************************************************)
\* a message has just been handled to its end and added items to the window
Ingested ==
    /\ Accepted
    /\ \A i \in 1..Len(pass.message.items) :
           ~convertItemThrows(protocolVersion, pass.message.items[i])
    /\ Len(BurstNew) > 0

\* the window before the trimming: the new items in front of the old ones
PreTrim == BurstNew \o pass.before

Newest(items, n) == SubSeq(items, 1, IF Len(items) < n THEN Len(items) ELSE n)

PayloadCategories == {"Transaction", "Index", "MS", "None"}

\* the classes the window is trimmed by
TrimClasses ==
    IF protocolVersion = "og" THEN {"zero", "nonZero"}
    ELSE {"transactionPayload", "indexPayload", "msPayload", "nonePayload"}

LastIndexOf(s, x) ==
    CHOOSE i \in 1..Len(s) : s[i] = x /\ \A j \in (i + 1)..Len(s) : s[j] # x

\* node n of the graph the pass started on went into it before node q did:
\* at an earlier time, or at the same time and ahead of q in _existingIds
InsertedEarlier(n, q) ==
    LET G == pass.before
    IN  /\ n \in NodeIds(G) /\ q \in NodeIds(G) /\ n # q
        /\ \/ G.nodes[n].added < G.nodes[q].added
           \/ /\ G.nodes[n].added = G.nodes[q].added
              /\ InSeq(n, pass.existing) /\ InSeq(q, pass.existing)
              /\ LastIndexOf(pass.existing, n) < LastIndexOf(pass.existing, q)

\* C26: when the sweep of a pass has queued a node, no node that went into
\* the graph before it and that the pass did not add is in the graph after
\* the sweep's removals.
C26_OldestFirst ==
    JustDrew =>
        \A q \in SeqSet(pass.queued) :
            \A n \in NodeIds(pass.drained) :
                ~InSeq(n, pass.added) => ~InsertedEarlier(n, q)

\* C27: the removal queue is empty at the end of every update pass, when the
\* eviction sweep of a pass starts, and when each component-discovery turn of
\* a pruning pass starts.
C27_QueueDrained ==
    /\ Len(_removeNodes) = 0
    /\ JustDrew =>
           /\ Len(pass.pending) = 0
           /\ Len(pass.left) = 0
           /\ \A i \in 1..Len(pass.iterations) :
                  /\ Len(pass.iterations[i].pending) = 0
                  /\ Len(pass.iterations[i].left) = 0

\* a pass whose sweep queued a node and whose pruning queued more
C27_Witness ==
    /\ JustPruned
    /\ Len(pass.queued) >= 1
    /\ Len(pass.iterations) = 2
    /\ Len(pass.iterations[1].queued) >= 1

(***************************************************************************)
(* C28, C29: the eligibility test of the pruning, stated on the components *)
(* of the graph and the number of nodes the graph holds.                   *)
(***************************************************************************)
\* component S of graph G is below the small-network share of `total' nodes
\* and its latest node arrived more than 60 s ago
Eligible(G, S, total) ==
    /\ Cardinality(S) * 100 < total * SMALL_NETWORK_PERCENT
    /\ pass.at - LatestArrival(G, S) > SMALL_NETWORK_AGE

\* C28: in every turn of a pruning pass the nodes of a component are queued
\* if and only if the component is below the small-network share of the
\* number of nodes the graph holds and its latest node arrived more than
\* 60 s ago, and a component that fails either condition loses no node.
C28_QueuedIffEligible ==
    JustPruned =>
        \A i \in 1..Len(pass.iterations) :
            LET it == pass.iterations[i]
                total == Cardinality(NodeIds(it.graph))
            IN  \A S \in Components(it.graph) :
                    IF Eligible(it.graph, S, total)
                    THEN S \subseteq SeqSet(it.queued)
                    ELSE /\ S \cap SeqSet(it.queued) = {}
                         /\ S \subseteq NodeIds(it.after)

\* C29: when removeSmallNetworks has returned, no component of the graph is
\* both below the small-network share of the number of nodes the graph holds
\* and more than 60 s past its latest arrival.
C29_FixedPoint ==
    JustPruned =>
        \A S \in Components(Graph) :
            ~Eligible(Graph, S, Cardinality(NodeIds(Graph)))

(***************************************************************************)
(* C30: the discovery of the sub graphs.                                   *)
(***************************************************************************)
\* C30: in every turn of a pruning pass the discovery gives every node of the
\* graph one component id, the same id to two nodes if and only if a path of
\* links, followed in either direction, joins them; the member list of a
\* component holds its nodes, each once, and its mostRecentChange is the
\* latest arrival time among them.
C30_DiscoveryPartitions ==
    JustPruned =>
        \A i \in 1..Len(pass.iterations) :
            LET it == pass.iterations[i]
                G == it.graph
                subs == it.subGraphs
            IN  /\ DOMAIN it.graphIds = NodeIds(G)
                /\ \A n \in NodeIds(G) : it.graphIds[n] \in 1..Len(subs)
                /\ \A n, m \in NodeIds(G) :
                       (it.graphIds[n] = it.graphIds[m]) <=> (m \in Component(G, n))
                /\ \A k \in 1..Len(subs) :
                       /\ SeqSet(subs[k].nodes)
                              = {n \in NodeIds(G) : it.graphIds[n] = k}
                       /\ Len(subs[k].nodes) = Cardinality(SeqSet(subs[k].nodes))
                       /\ subs[k].nodes # << >>
                       /\ subs[k].mostRecentChange
                              = LatestArrival(G, SeqSet(subs[k].nodes))

\* a discovery has found two components, one of them with nodes that
\* arrived at different times
C30_Witness ==
    /\ JustPruned
    /\ \E i \in 1..Len(pass.iterations) :
           LET it == pass.iterations[i]
           IN  /\ Len(it.subGraphs) >= 2
               /\ \E k \in 1..Len(it.subGraphs) :
                      \E n, m \in SeqSet(it.subGraphs[k].nodes) :
                          it.graph.nodes[n].added < it.graph.nodes[m].added

(***************************************************************************)
(* C31: the milestone index under arrivals and tracking passes.            *)
(***************************************************************************)
\* the step handed items to itemsUpdated: the pending list grew
Arrived == Len(_newItems') > Len(_newItems)

\* the items the step handed over
Arrivals == SubSeq(_newItems', Len(_newItems) + 1, Len(_newItems'))

\* the last of the arrived items that carries milestone index k
LastCarrier(k) ==
    Arrivals[CHOOSE i \in 1..Len(Arrivals) :
                 /\ MSOf(Arrivals[i]) = k
                 /\ \A j \in (i + 1)..Len(Arrivals) : MSOf(Arrivals[j]) # k]

\* an arrived item that carries a milestone index leaves the entry
\* (its id, now) at that index
C31_Upsert ==
    Arrived =>
        \A k \in MsIndices :
            (\E i \in 1..Len(Arrivals) : MSOf(Arrivals[i]) = k) =>
                /\ k \in DOMAIN _msIndexToNode'
                /\ _msIndexToNode'[k] = [id |-> LastCarrier(k).id, lastSeen |-> now']

\* a tracking pass keeps every entry whose node is in the graph and sets
\* its lastSeen to the time of the pass
C31_Refresh ==
    pass'.op = "track" =>
        \A k \in DOMAIN pass'.msBefore :
            getNode(Graph, pass'.msBefore[k].id) =>
                /\ k \in DOMAIN _msIndexToNode'
                /\ _msIndexToNode'[k].id = pass'.msBefore[k].id
                /\ _msIndexToNode'[k].lastSeen = pass'.at

\* after a tracking pass every entry has its node in the graph or was last
\* seen at most 300 s before the pass
C31_Remaining ==
    Tracked =>
        \A k \in DOMAIN _msIndexToNode :
            \/ getNode(Graph, _msIndexToNode[k].id)
            \/ pass.at - _msIndexToNode[k].lastSeen <= MS_STALE

\* C31: every arriving item that carries a milestone index sets the entry
\* of that index to (item id, now); a tracking pass refreshes lastSeen of
\* every entry whose node is in the graph and never deletes such an entry;
\* after a tracking pass every remaining entry has its node in the graph or
\* a lastSeen at most 300 s old
C31_MilestoneIndex ==
    [](C31_Remaining) /\ [][C31_Upsert /\ C31_Refresh]_vars

\* a tracking pass started by an arrived milestone item has replaced the
\* entry of its index and refreshed the entry of a node in the graph
C31_Witness ==
    /\ Tracked
    /\ Len(_newItems) > 0
    /\ MSOf(Last(_newItems)) # 0
    /\ MSOf(Last(_newItems)) \in DOMAIN _msIndexToNode
    /\ _msIndexToNode[MSOf(Last(_newItems))].lastSeen = now
    /\ ~getNode(Graph, Last(_newItems).id)
    /\ \E k \in DOMAIN pass.msBefore :
           /\ getNode(Graph, pass.msBefore[k].id)
           /\ pass.msBefore[k].lastSeen < now
           /\ _msIndexToNode[k].lastSeen = now

(***************************************************************************)
(* C32: one edge per (parent, child) pair.                                 *)
(***************************************************************************)
\* C32: the graph never holds two edges with the same (parent, child)
\* pair, whatever batches arrive, items whose two parents are the same id
\* and items delivered again after their node was removed included
C32_NoParallelEdges == NoDup(links)

\* a pass has just put back the node of an item whose two parents are the
\* same id, after an earlier pass had added and removed it, and the one
\* edge from that parent is in the graph
C32_Witness ==
    /\ JustDrew
    /\ \E i \in 1..Len(pass.items) :
           LET item == pass.items[i]
           IN  /\ item.parent1 # 0
               /\ item.parent1 = item.parent2
               /\ InSeq(item.id, pass.added)
               /\ InSeq(item.id, pass.existing)
               /\ InSeq([fromId |-> item.parent1, toId |-> item.id], links)

(***************************************************************************)
(* C33: the pruning interval.  _smallNetworkInterval counts the update     *)
(* passes that had items to apply (the model keeps it modulo the           *)
(* interval); a pass ran the pruning when it holds pruning turns.          *)
(***************************************************************************)
\* the step is an update pass
DrewNext == pass'.op = "draw"

\* the update pass of the step ran removeSmallNetworks
PrunedNext == DrewNext /\ Len(pass'.iterations) > 0

\* an update pass has items to apply, counts itself, and prunes exactly
\* when the passes counted before it are a multiple of the interval; no
\* other step counts or prunes
C33_Step ==
    /\ DrewNext =>
           /\ Len(_newItems) > 0
           /\ Len(pass'.items) > 0
           /\ _smallNetworkInterval' =
                  (_smallNetworkInterval + 1) % SMALL_NETWORK_INTERVAL
           /\ PrunedNext <=> (_smallNetworkInterval = 0)
    /\ ~DrewNext => _smallNetworkInterval' = _smallNetworkInterval

\* no pass has been counted before the first step
C33_Start == _smallNetworkInterval = 0

\* C33: small-component pruning runs once every 100 update passes that had
\* items to apply (here every SMALL_NETWORK_INTERVAL passes): it runs in an
\* update pass exactly when the number of earlier such passes is a multiple
\* of the interval, and never in a pass that had no pending items
C33_PruningInterval == C33_Start /\ [][C33_Step]_vars

\* a pruning pass that is not the first pass (earlier passes have listed
\* ids) has counted itself
C33_Witness ==
    /\ JustDrew
    /\ Len(pass.iterations) > 0
    /\ Len(pass.existing) > 0
    /\ _smallNetworkInterval = 1 % SMALL_NETWORK_INTERVAL

(***************************************************************************)
(* C34: the retained sequence against the graph.                           *)
(***************************************************************************)
\* C34: at the end of every update pass _existingIds and the graph agree:
\* every id of the sequence is a node of the graph, every node of the graph
\* is in the sequence, and no id is in the sequence twice
C34_SequenceMatchesGraph ==
    JustDrew =>
        /\ SeqSet(_existingIds) = NodeIds(Graph)
        /\ NoDup(_existingIds)

(***************************************************************************)
(* SpecShared: listeners that come and go on a server that grants every    *)
(* subscription it is asked for.                                           *)
(***************************************************************************)
NextShared ==
    \/ \E listener \in Listeners : Subscribe(listener, MaxHandlers)
    \/ \E listener \in Listeners : Unsubscribe(listener)
    \/ SubscribeResponse(FALSE)
    \/ ServerMessage(MaxMessage, WireIds, {<< >>}, NoFailure)

SpecShared == InitFeed /\ [][NextShared]_vars

(***************************************************************************)
(* C35: one listener of several unsubscribes.                              *)
(***************************************************************************)
\* the step is a message of the subscription the client requested last,
\* arriving when every response of the server has been handled and
\* listeners are registered
BatchForListeners ==
    /\ pass'.op = "message"
    /\ Len(_subscribers) > 0
    /\ Len(responses) = 0
    /\ pass'.message.subscriptionId = handlers

\* the message of the step was handed to the listener
Received(listener) ==
    \E j \in 1..Len(pass'.calls) :
        /\ pass'.calls[j].listener = listener
        /\ pass'.calls[j].newItems = FilterNew(
               [i \in 1..Len(pass'.message.items) |->
                   convertItem(protocolVersion, pass'.message.items[i])],
               _feedIds)

\* a batch reaches every registered listener, and a subscription is closed
\* at the server only by the step that leaves no listener
C35_Step ==
    /\ BatchForListeners => \A l \in SeqSet(_subscribers) : Received(l)
    /\ (active' # active /\ active' \subseteq active) => Len(_subscribers') = 0

\* C35: when one of several registered listeners unsubscribes, every
\* remaining listener keeps receiving each later incoming batch; the
\* underlying subscription is given up only when the last listener
\* unsubscribes
C35_RemainingListenersServed == [][C35_Step]_vars

(***************************************************************************)
(* SpecPolling: the component between componentDidMount and its teardown   *)
(* or a change of network, while the callback of every buildItems awaits   *)
(* the statistics request of updateTps.  A build is named by the network   *)
(* it was started for.                                                     *)
(***************************************************************************)
NextPolling ==
    \/ Delivery(MsMaxPending)
    \/ DrawUpdates
    \/ Unmount
    \/ \E window \in SeqsUpTo(Ids, 1) : NetworkChanged(NumNetworks, window)
    \/ \E build \in 1..NumNetworks : StatsReturned(build)

SpecPolling == InitLife /\ [][NextPolling]_vars

(***************************************************************************)
(* C36: the statistics polling interval.                                   *)
(***************************************************************************)
\* C36: after closeItems returns (on unmount or on a change of network) no
\* polling interval created by a buildItems before it is or later becomes
\* active, however closeItems and the steps of the buildItems callback
\* interleave; at most one polling interval is active at any time
C36_PollingClosed ==
    /\ ~_isMounted => intervals = {}
    /\ \A build \in intervals : build = network
    /\ Cardinality(intervals) <= 1

(***************************************************************************)
(* SpecRepeat: the feed client behind one "transactions" handler, under    *)
(* messages of up to MaxBatch wire items in any order, the same item       *)
(* twice included.                                                         *)
(***************************************************************************)
AnyMessage(maxMessage, raw) ==
    \E s \in active, items \in SeqsUpTo(raw, maxMessage) :
        Transactions([subscriptionId |-> s, items |-> items,
                      itemsMetadata |-> << >>], {})

NextRepeat ==
    \/ \E listener \in Listeners : Subscribe(listener, 1)
    \/ SubscribeResponse(FALSE)
    \/ AnyMessage(MaxBatch, WireIds)

SpecRepeat == InitFeed /\ [][NextRepeat]_vars

(***************************************************************************)
(* C37: the window and its id index.                                       *)
(***************************************************************************)
\* C37: the window never holds two items with the same id, and the
\* existing-id set is the set of the ids of the window's items after every
\* processed message, a message that carries the same item twice included
C37_WindowIdsUnique ==
    /\ NoDup(IdsOf(_items))
    /\ SeqSet(_feedIds) = SeqSet(IdsOf(_items))

(***************************************************************************)
(* SpecFrames: the engine with its animation frames.  drawUpdates asks for *)
(* the next frame at its end while _drawTimer is set (lines 1649-1651) and *)
(* the browser runs a requested frame, so a pass that stays possible is    *)
(* taken: weak fairness of the update pass.  Unmount ends the frames.      *)
(* DrawUpdates is the one action that takes items off the pending list,    *)
(* so the fairness is stated on that part of it, lines 1578-1581.          *)
(***************************************************************************)
NextFrames ==
    \/ Tick(MaxTicks)
    \/ FirstDelivery
    \/ Delivery(MaxPending)
    \/ DrawUpdates
    \/ Unmount

\* lines 1578-1581 of the frame that runs: the pass takes its items
RunFrame ==
    /\ frame
    /\ Len(_newItems) > 0
    /\ _newItems' = SubSeq(_newItems, consumeLength(Len(_newItems)) + 1,
                           Len(_newItems))

pendingVars == <<_newItems>>

SpecFrames == InitLife /\ [][NextFrames]_vars /\ WF_pendingVars(RunFrame)

(***************************************************************************)
(* C38: the pending list.                                                  *)
(***************************************************************************)
\* an update pass takes a non-empty prefix of the pending list, leaves the
\* rest pending in the same order, and the node of every item it took is
\* in the graph once its insertion loop has run; any other step leaves the
\* pending items where they are and adds the arrived ones behind them
C38_Step ==
    /\ DrewNext =>
           /\ Len(pass'.items) >= 1
           /\ _newItems = pass'.items \o _newItems'
           /\ \A i \in 1..Len(pass'.items) :
                  getNode(pass'.inserted, pass'.items[i].id)
    /\ ~DrewNext =>
           /\ Len(_newItems') >= Len(_newItems)
           /\ SubSeq(_newItems', 1, Len(_newItems)) = _newItems

\* the frames end, or items arrive again and again, or the pending list is
\* empty again and again
C38_Drains ==
    \/ <>(~frame)
    \/ []<><<Arrived>>_vars
    \/ []<>(Len(_newItems) = 0)

\* C38: every item handed to itemsUpdated is applied to the graph by
\* exactly one update pass, the items are applied in arrival order, each
\* pass with pending items consumes at least one item, and if arrivals stop
\* while frames keep running the pending list eventually becomes empty
C38_PendingApplied == [][C38_Step]_vars /\ C38_Drains

\* a pass has just taken the last item of a pending list that an earlier
\* pass had taken the first items of
C38_Witness ==
    /\ JustDrew
    /\ Len(_newItems) = 0
    /\ Len(pass.items) >= 1
    /\ Len(pass.existing) > 0
    /\ frame

(***************************************************************************)
(* C39: the last listener unsubscribes.                                    *)
(***************************************************************************)
\* with no listener left the server has been asked to close every
\* subscription it was asked to open
C39_AllClosed == Len(_subscribers) = 0 => active = {}

\* with no listener left a message changes neither the window nor its ids
C39_Step ==
    (pass'.op = "message" /\ Len(_subscribers) = 0) =>
        /\ ~pass'.accepted
        /\ UNCHANGED <<_items, _feedIds>>

\* C39: once the last listener has unsubscribed, an 'unsubscribe' request
\* has been sent for every subscription the client requested, and no later
\* incoming message is reconciled into the window, also when the
\* unsubscribe happens before the server's subscribe response arrives
C39_ClosedAfterLastListener == [](C39_AllClosed) /\ [][C39_Step]_vars

(***************************************************************************)
(* SpecConfirm: the feed client that reports confirmations as a list of    *)
(* ids (unnamed/part_003) in front of the engine, on an og network.  The   *)
(* listener of Feeds hands the new items of a message to itemsUpdated and  *)
(* its confirmed ids to confirmedUpdated.  convertItem makes one object    *)
(* per new item; the window, the engine's pending list and the node made   *)
(* from the item hold that same object, so a flag the feed client sets on  *)
(* a window item is set on the pending item too.  The server sends every   *)
(* item once, in ascending order of id, so an id names one object.         *)
(***************************************************************************)
MIN_ITEMS_LANDING == 1             \* part_003 FeedClient.MIN_ITEMS_PER_TYPE (10)

\* part_003 lines 146-153: existing.confirmed = true for the window items
MarkWindow(items, confirmed) ==
    [i \in 1..Len(items) |->
        IF InSeq(items[i].id, confirmed)
        THEN [items[i] EXCEPT !.confirmed = TRUE] ELSE items[i]]

\* the first `old' pending items after the marking of the window: those
\* whose object the window holds
MarkShared(pending, old, windowIds, confirmed) ==
    [i \in 1..Len(pending) |->
        IF /\ i <= old
           /\ InSeq(pending[i].id, confirmed)
           /\ InSeq(pending[i].id, windowIds)
        THEN [pending[i] EXCEPT !.confirmed = TRUE] ELSE pending[i]]

\* part_003 lines 165-174: the positions of the zero-value (or of the other)
\* transactions of the window, and those beyond the newest ten
LandingPositions(items, zero) ==
    SelectSeq([i \in 1..Len(items) |-> i],
              LAMBDA i : (items[i].value = 0) = zero)

LandingRemove(items, zero) ==
    {LandingPositions(items, zero)[k] :
        k \in (MIN_ITEMS_LANDING + 1)..Len(LandingPositions(items, zero))}

\* part_003 lines 160-186 on an og network, where every item is a
\* "Transaction": the window without the items to remove
LandingKept(items) ==
    SelectSeq([i \in 1..Len(items) |-> i],
              LAMBDA i : i \notin LandingRemove(items, TRUE)
                                  \cup LandingRemove(items, FALSE))

LandingTrim(items) ==
    [k \in 1..Len(LandingKept(items)) |-> items[LandingKept(items)[k]]]

\* the largest id the server has sent
MaxDelivered ==
    LET sent == SeqSet(_feedIds) \cup SeqSet(_existingIds)
                    \cup {_newItems[i].id : i \in 1..Len(_newItems)}
    IN  IF sent = {} THEN 0 ELSE CHOOSE x \in sent : \A y \in sent : y <= x

\* the "transactions" handler of part_003 (lines 142-196) on a message
\* with the items `ids' and the confirmed ids `confirmed', with the
\* listener of Feeds behind it: itemsUpdated, then confirmedUpdated
FeedMessage(ids, confirmed) ==
    /\ _isMounted
    /\ _itemSubscriptionId # 0
    /\ Len(ids) + Len(confirmed) > 0
    /\ Ascending(ids)
    /\ \A i \in 1..Len(ids) : ids[i] > MaxDelivered
    /\ LET marked == MarkWindow(_items, confirmed)
           converted == NetworkItems(network, protocolVersion, ledger, ids)
           filteredNewItems == FilterNew(converted, _feedIds)
           window == IF Len(filteredNewItems) > 0
                     THEN LandingTrim(filteredNewItems \o marked)
                     ELSE marked
           r == itemsUpdated(protocolVersion, filteredNewItems)
       IN  /\ _items' = window
           /\ _feedIds' = IdsOf(window)
           /\ _newItems' = MarkShared(r.pending, Len(_newItems), _feedIds,
                                      confirmed)
           /\ nodes' = markConfirmed(r.G, confirmed)
           /\ links' = r.G.links
           /\ _msIndexToNode' = r.ms
           /\ pass' = [op |-> "feed", items |-> filteredNewItems,
                       confirmed |-> confirmed, known |-> _feedIds]
    /\ UNCHANGED <<protocolVersion, ledger, _existingIds, _removeNodes,
                   _smallNetworkInterval, now, ticks, filter, lifeVars,
                   _subscriptionId, _subscribers, handlers, responses, active>>

NextConfirm ==
    \/ \E ids \in SeqsUpTo(Ids, MaxPending),
          confirmed \in SeqsUpTo(Ids, MaxConfirmed) : FeedMessage(ids, confirmed)
    \/ DrawUpdates

SpecConfirm == InitLife /\ [][NextConfirm]_vars

(***************************************************************************)
(* C40: a confirmation that arrives while the item is pending.             *)
(***************************************************************************)
\* a message that reports a pending item without a node confirmed leaves
\* the pending item confirmed, and the node an update pass creates for a
\* confirmed item is confirmed
C40_Step ==
    /\ pass'.op = "feed" =>
           \A i \in 1..Len(_newItems) :
               (/\ InSeq(_newItems[i].id, pass'.confirmed)
                /\ ~getNode(Graph, _newItems[i].id))
                   => _newItems'[i].confirmed
    /\ DrewNext =>
           \A i \in 1..Len(pass'.items) :
               (/\ pass'.items[i].confirmed
                /\ ~getNode(Graph, pass'.items[i].id)
                /\ getNode(pass'.drained, pass'.items[i].id))
                   => pass'.inserted.nodes[pass'.items[i].id].feedItem.confirmed

\* C40: a confirmation is never lost: if an id is reported confirmed after
\* its item was delivered to the engine but before its node is created
\* (the item is still pending), the node created for it has
\* confirmed = true
C40_ConfirmationKept == [][C40_Step]_vars
====
